---- MODULE Spec2Model ----
(***************************************************************************)
(* Model of the zenix library entry points addWatermark, resizeImage and   *)
(* stripMetadata: option validation, input dispatch, the per-file          *)
(* operation and the batched directory loop (processDirectory).            *)
(*                                                                         *)
(* JavaScript runs each continuation to completion, so one action is one   *)
(* stretch of code between two awaits of the concurrent part; the          *)
(* sequential prefix of a call (scan, length check, mkdir) is one action.  *)
(***************************************************************************)
EXTENDS Integers, Sequences, FiniteSets, TLC

\* ------------------------------------------------------------------ bounds
\* number of directory entries listed under the input root (at most Len(Tree))
MaxFiles == 9
\* number of discovered files that are individually corrupt
MaxBad == 2

\* ------------------------------------------------------------- JS values
Undef == "<undefined>"

\* JS truthiness of an optional string option (undefined and "" are falsy)
Truthy(v) == v # Undef /\ v # ""

\* ------------------------------------------------------------ file system
\* The listing of the input root.  dir is the path of the containing
\* directory relative to the file system root, name.ext the file name.
inputDir == <<"in">>
outputDir == <<"out">>

Tree ==
    << [dir |-> <<"in">>,        name |-> "notes", ext |-> "txt"],
       [dir |-> <<"in", "sub">>, name |-> "a",     ext |-> "jpg"],
       [dir |-> <<"in">>,        name |-> "a",     ext |-> "jpg"],
       [dir |-> <<"in">>,        name |-> "b",     ext |-> "png"],
       [dir |-> <<"in">>,        name |-> "logo",  ext |-> "svg"],
       [dir |-> <<"in", "sub">>, name |-> "b",     ext |-> "png"],
       [dir |-> <<"in">>,        name |-> "c",     ext |-> "jpeg"],
       [dir |-> <<"in">>,        name |-> "clip",  ext |-> "mp4"],
       [dir |-> <<"in", "sub">>, name |-> "c",     ext |-> "webp"],
       [dir |-> <<"in">>,        name |-> "d",     ext |-> "gif"],
       [dir |-> <<"in", "sub">>, name |-> "d",     ext |-> "gif"],
       [dir |-> <<"in">>,        name |-> "e",     ext |-> "bmp"] >>

\* the single-file call's input and output paths
singleInput == [dir |-> <<"in">>, name |-> "a", ext |-> "jpg"]
singleOutput == [dir |-> <<"out">>, name |-> "a", ext |-> "jpg"]

Ops == {"watermark", "resize", "strip"}

\* extension allow-lists of the three glob patterns
WatermarkFormats == {"jpg", "jpeg", "png", "gif", "bmp", "tiff", "tif", "webp", "svg"}
ResizeFormats == {"jpg", "jpeg", "png", "gif", "bmp", "tiff", "tif", "webp"}
SUPPORTED_FORMATS ==
    {"jpg", "jpeg", "png", "gif", "bmp", "tiff", "tif", "webp", "svg", "raw",
     "mp4", "avi", "mov", "mkv", "webm", "3gp", "flv", "wmv", "m4v",
     "mp3", "wav", "flac", "aac", "m4a", "ogg", "wma",
     "pdf", "doc", "docx", "xls", "xlsx", "ppt", "pptx"}

formatPattern(o) ==
    IF o = "watermark" THEN WatermarkFormats
    ELSE IF o = "resize" THEN ResizeFormats
    ELSE SUPPORTED_FORMATS

batchSize(o) == IF o = "watermark" THEN 3 ELSE 5

\* ---------------------------------------------------------------- paths
IsPrefix(p, q) == Len(p) <= Len(q) /\ SubSeq(q, 1, Len(p)) = p

\* path.relative(inputDir, file) for a file below inputDir
relativePath(root, file) ==
    [dir |-> SubSeq(file.dir, Len(root) + 1, Len(file.dir)),
     name |-> file.name, ext |-> file.ext]

\* path.join(outputDir, relativePath)
outputFileBasename(root, out, file) ==
    [dir |-> out, name |-> file.name, ext |-> file.ext]

outputFile(root, out, file) ==
    [dir |-> out \o relativePath(root, file).dir,
     name |-> file.name, ext |-> file.ext]

\* path.dirname
dirname(p) == p.dir

\* fs.mkdir(dir, {recursive: true}): dir and every missing ancestor
mkdirRecursive(dirs, d) == dirs \cup {SubSeq(d, 1, k) : k \in 1..Len(d)}

\* Glob.scan: the pattern *.{exts} lists the files directly under cwd,
\* **/*.{exts} the files at any depth; listing order is the order of Tree
RECURSIVE SelectSeq2(_, _, _)
SelectSeq2(s, k, keep) ==
    IF k > Len(s) THEN <<>>
    ELSE (IF s[k] \in keep THEN <<s[k]>> ELSE <<>>) \o SelectSeq2(s, k + 1, keep)

globScan(o, rec, n) ==
    LET keep == {Tree[k] : k \in {j \in 1..n :
                    /\ Tree[j].ext \in formatPattern(o)
                    /\ IsPrefix(inputDir, Tree[j].dir)
                    /\ (rec \/ Tree[j].dir = inputDir)}}
    IN SelectSeq2(SubSeq(Tree, 1, n), 1, keep)

\* -------------------------------------------------------------- options
\* A padding option is absent or the string the caller passed: its numeric
\* part as parseFloat reads it (nan when it has none) and whether it ends
\* in '%'.
Pad(v, percent) == [set |-> TRUE, nan |-> FALSE, n |-> v, pct |-> percent]
PadAbsent == [set |-> FALSE, nan |-> FALSE, n |-> 0, pct |-> FALSE]
PadNegative == Pad(0 - 1, FALSE)
PadPercent == Pad(10, TRUE)

\* options.paddingX || '20'
paddingOrDefault(v) == IF v.set THEN v ELSE Pad(20, FALSE)

\* parsePadding throws (InvalidPadding) on this value
parsePaddingThrows(value) ==
    IF value.pct
    THEN value.nan \/ value.n < 0 \/ value.n > 100
    ELSE value.nan \/ value.n < 0

\* A size option is a number, a string or absent; nan marks NaN.
SizeString(v) == [kind |-> "string", nan |-> FALSE, val |-> v]
SizeNumber(v) == [kind |-> "number", nan |-> FALSE, val |-> v]
SizeAbsent == [kind |-> "undefined", nan |-> FALSE, val |-> 0]
SizeNotANumber == [kind |-> "string", nan |-> TRUE, val |-> 0]

\* typeof options.size === 'string' ? parseFloat(options.size) : options.size || 5
sizePercentOf(size) ==
    IF size.kind = "string" THEN [nan |-> size.nan, val |-> size.val]
    ELSE IF size.kind = "number" /\ ~size.nan /\ size.val # 0
         THEN [nan |-> FALSE, val |-> size.val]
    ELSE [nan |-> FALSE, val |-> 5]

\* the size check of the image path throws (InvalidSize)
sizeThrows(size) ==
    LET sizePercent == sizePercentOf(size)
    IN sizePercent.nan \/ sizePercent.val <= 0 \/ sizePercent.val > 100

\* overlay files present on disk and the format sharp decodes them to
OverlayFiles == {"logo.png", "scan.tiff"}
overlayFormat(p) == IF p = "logo.png" THEN "png" ELSE "tiff"
supportedFormatsWithTiff == {"jpeg", "png", "svg", "webp", "tiff"}

supportedFormats == {"jpeg", "png", "svg", "webp"}

WatermarkOptionCases ==
    {[text |-> "W", image |-> Undef, position |-> pos,
      paddingX |-> px, paddingY |-> PadAbsent, size |-> SizeString(25)] :
        pos \in {"bottom-right", "center"}, px \in {PadAbsent, PadNegative}}
    \cup
    {[text |-> Undef, image |-> img, position |-> "bottom-right",
      paddingX |-> PadAbsent, paddingY |-> py, size |-> sz] :
        img \in {"logo.png", "scan.tiff", "missing.svg"},
        py \in {PadPercent, PadNegative},
        sz \in {SizeString(25), SizeString(0)}}
    \cup
    {[text |-> t, image |-> img, position |-> "bottom-right",
      paddingX |-> PadAbsent, paddingY |-> PadAbsent, size |-> SizeAbsent] :
        t \in {Undef, "", "W"}, img \in {Undef, "logo.png"}}

\* resize options: scale/width/height are numbers (0 when absent); fit is
\* absent or the pair of numbers split('x').map(Number) yields (0 for a
\* missing or non-numeric part, which is falsy like 0)
FitAbsent == [set |-> FALSE, w |-> 0, h |-> 0]
Fit(a, b) == [set |-> TRUE, w |-> a, h |-> b]

ResizeOptionCases ==
    { [scale |-> 0, fit |-> FitAbsent, width |-> 800, height |-> 0],
      [scale |-> 2, fit |-> FitAbsent, width |-> 0, height |-> 0],
      [scale |-> 0, fit |-> Fit(1920, 0), width |-> 0, height |-> 0],
      [scale |-> 0, fit |-> FitAbsent, width |-> 0, height |-> 0] }

MetadataOptionCases == { [none |-> TRUE] }

OptionCases(o) ==
    IF o = "watermark" THEN WatermarkOptionCases
    ELSE IF o = "resize" THEN ResizeOptionCases
    ELSE MetadataOptionCases

\* ---------------------------------------------------- per-file operation
\* Outcome of processSingleFile on one input: ok or the error thrown,
\* and what it left at the output path ("none" when nothing was written).
Done(content) == [ok |-> TRUE, err |-> "none", wrote |-> content]
Failed(reason, content) == [ok |-> FALSE, err |-> reason, wrote |-> content]

watermarkSingleFile(corrupt, options) ==
    IF corrupt THEN Failed("UnreadableImage", "none")
    ELSE IF Truthy(options.text) THEN
        IF options.position # "center"
           /\ (parsePaddingThrows(paddingOrDefault(options.paddingX))
               \/ parsePaddingThrows(paddingOrDefault(options.paddingY)))
        THEN Failed("InvalidPadding", "none")
        ELSE Done("watermarked")
    ELSE IF Truthy(options.image) THEN
        IF options.image \notin OverlayFiles
        THEN Failed("OverlayNotFound", "none")
        ELSE IF options.position # "center"
                /\ (parsePaddingThrows(paddingOrDefault(options.paddingX))
                    \/ parsePaddingThrows(paddingOrDefault(options.paddingY)))
        THEN Failed("InvalidPadding", "none")
        ELSE IF overlayFormat(options.image) \notin supportedFormats
        THEN Failed("UnsupportedOverlayFormat", "none")
        ELSE IF sizeThrows(options.size)
        THEN Failed("InvalidSize", "none")
        ELSE Done("watermarked")
    ELSE Done("reencoded")

resizeSingleFile(corrupt, options) ==
    IF options.scale # 0 THEN
        IF corrupt THEN Failed("UnreadableImage", "none") ELSE Done("resized")
    ELSE IF options.fit.set THEN
        IF options.fit.w = 0 \/ options.fit.h = 0
        THEN Failed("InvalidFit", "none")
        ELSE IF corrupt THEN Failed("UnreadableImage", "none") ELSE Done("resized")
    ELSE IF options.width # 0 \/ options.height # 0 THEN
        IF corrupt THEN Failed("UnreadableImage", "none") ELSE Done("resized")
    ELSE Failed("NoResizeOptions", "none")

\* copyFile first, then exiftool.write on the copy
metadataSingleFile(toolFails, options) ==
    IF toolFails THEN Failed("ExternalToolFailure", "copied")
    ELSE Done("stripped")

processSingleFile(o, faultyFile, options) ==
    IF o = "watermark" THEN watermarkSingleFile(faultyFile, options)
    ELSE IF o = "resize" THEN resizeSingleFile(faultyFile, options)
    ELSE metadataSingleFile(faultyFile, options)

\* `Error <verb> <file>: <message>`
errorVerb(o) ==
    IF o = "watermark" THEN "watermarking"
    ELSE IF o = "resize" THEN "resizing" ELSE "processing"

errorMessage(o, file, err) == [verb |-> errorVerb(o), path |-> file, error |-> err]

\* ------------------------------------------------------------------ state
VARIABLES
    op,            \* which entry point is called
    inputKind,     \* what the input path is: "file", "dir" or "missing"
    recursive,     \* options.recursive
    nEntries,      \* the input root lists Tree[1..nEntries]
    faulty,        \* files the raster library / metadata tool rejects
    options,       \* the option bag of the call
    pc,            \* position of the entry point
    files,         \* processDirectory: the discovered files
    i,             \* processDirectory: loop index (0-based, as in the code)
    stage,         \* per discovered file: idle, mkdir, run, ok, failed
    started,       \* per discovered file: times its task was started
    processed,     \* processDirectory: success counter
    errors,        \* processDirectory: failure counter
    errorMessages, \* processDirectory: accumulated messages
    fsDirs,        \* directories that exist
    fsFiles,       \* writes made below the output root
    outcome,       \* "running", "returned" or "threw"
    thrown,        \* the error the call rejected with
    result,        \* the ProcessingResult returned
    call,          \* single-file watermark run: its inputs
    run,           \* single-file watermark run: step, trace, error, output
    args,          \* a helper function under check: its arguments
    ret            \* a helper function under check: its result

\* the variables of the entry-point model
callVars == <<op, inputKind, recursive, nEntries, faulty, options, pc, files, i,
              stage, started, processed, errors, errorMessages, fsDirs, fsFiles,
              outcome, thrown, result>>

\* the variables of the step-level file run and of the helper functions
stepVars == <<call, run, args, ret>>

vars == <<callVars, stepVars>>

Idle == [idle |-> TRUE]

input == <<op, inputKind, recursive, nEntries, faulty, options, stepVars>>
loopVars == <<files, i, stage, started, processed, errors, errorMessages>>

Range(s) == {s[k] : k \in 1..Len(s)}

NoResult ==
    [success |-> FALSE, processed |-> 0, errors |-> 0,
     errorMessages |-> [present |-> FALSE, list |-> <<>>]]

\* errorMessages.length > 0 ? errorMessages : undefined
resultMessagesAlways(msgs) == [present |-> TRUE, list |-> msgs]

resultMessages(msgs) ==
    IF Len(msgs) > 0
    THEN [present |-> TRUE, list |-> msgs]
    ELSE [present |-> FALSE, list |-> <<>>]

ProcessingResult(p, e, msgs) ==
    [success |-> (e = 0), processed |-> p, errors |-> e,
     errorMessages |-> resultMessages(msgs)]

\* the literal { success: true, processed: k, errors: 0 }
SuccessResult(k) ==
    [success |-> TRUE, processed |-> k, errors |-> 0,
     errorMessages |-> [present |-> FALSE, list |-> <<>>]]

\* the directories present before the call
InitialDirs(kind, n) ==
    IF kind = "dir" THEN {inputDir} \cup {Tree[k].dir : k \in 1..n}
    ELSE IF kind = "file" THEN {inputDir}
    ELSE {}

Init ==
    /\ op \in Ops
    /\ inputKind \in {"file", "dir", "missing"}
    /\ options \in OptionCases(op)
    /\ IF inputKind = "dir"
       THEN /\ recursive \in BOOLEAN
            /\ nEntries \in 0..MaxFiles
            /\ faulty \in {S \in SUBSET Range(globScan(op, recursive, nEntries)) :
                              Cardinality(S) <= MaxBad}
       ELSE /\ recursive = FALSE
            /\ nEntries = 0
            /\ faulty \in IF inputKind = "file" THEN SUBSET {singleInput} ELSE {{}}
    /\ pc = IF op = "watermark" THEN "validate" ELSE "access"
    /\ files = <<>>
    /\ i = 0
    /\ stage = <<>>
    /\ started = <<>>
    /\ processed = 0
    /\ errors = 0
    /\ errorMessages = <<>>
    /\ fsDirs = InitialDirs(inputKind, nEntries)
    /\ fsFiles = {}
    /\ outcome = "running"
    /\ thrown = "none"
    /\ result = NoResult
    /\ call = Idle
    /\ run = Idle
    /\ args = Idle
    /\ ret = Idle

Throw(err) ==
    /\ pc' = "done"
    /\ outcome' = "threw"
    /\ thrown' = err
    /\ UNCHANGED result

Return(r) ==
    /\ pc' = "done"
    /\ outcome' = "returned"
    /\ result' = r
    /\ UNCHANGED thrown

\* the option check at the top of addWatermark passes
watermarkKindValidLenient(o) ==
    ~(~Truthy(o.text) /\ ~Truthy(o.image))

watermarkKindValid(o) ==
    /\ ~(~Truthy(o.text) /\ ~Truthy(o.image))
    /\ ~(Truthy(o.text) /\ Truthy(o.image))

\* addWatermark, lines 15-22
Validate ==
    /\ pc = "validate"
    /\ IF watermarkKindValid(options)
       THEN /\ pc' = "access"
            /\ UNCHANGED <<outcome, thrown, result>>
       ELSE Throw("AmbiguousWatermarkKind")
    /\ UNCHANGED <<input, loopVars, fsDirs, fsFiles>>

\* fs.access / fs.stat and the dispatch on the kind of the input path
CheckInput ==
    /\ pc = "access"
    /\ IF inputKind = "missing" THEN Throw("InputNotFound")
       ELSE /\ pc' = IF inputKind = "file" THEN "single" ELSE "scan"
            /\ UNCHANGED <<outcome, thrown, result>>
    /\ UNCHANGED <<input, loopVars, fsDirs, fsFiles>>

\* return await processSingleFile(inputPath, outputPath, options)
SingleFile ==
    /\ pc = "single"
    /\ LET r == processSingleFile(op, singleInput \in faulty, options)
       IN /\ fsDirs' = mkdirRecursive(fsDirs, dirname(singleOutput))
          /\ fsFiles' = IF r.wrote = "none" THEN fsFiles
                        ELSE fsFiles \cup {[path |-> singleOutput,
                                            by |-> singleInput,
                                            content |-> r.wrote]}
          /\ IF r.ok THEN Return(SuccessResult(1)) ELSE Throw(r.err)
    /\ UNCHANGED <<input, loopVars>>

\* ------------------------------------------------------- processDirectory
\* files.slice(idx, idx + bs): positions (1-based) of the batch
sliceToEnd(idx, bs, n) == {p \in 1..n : idx < p}

slice(idx, bs, n) == {p \in 1..n : idx < p /\ p <= idx + bs}

\* i += batchSize
nextIndexOverlap(idx, bs) == idx + bs - 1

nextIndex(idx, bs) == idx + bs

Settled(st) == st \in {"ok", "failed"}
InFlight(st) == st \in {"mkdir", "run"}

\* await Promise.all(promises) resumes: no promise of the batch rejects
\* (each body is wrapped in try/catch), so it resumes when all have settled
anySettled(st, batch) == \E p \in batch : Settled(st[p])

allSettled(st, batch) == \A p \in batch : Settled(st[p])

\* the counters after a task's processSingleFile settled
nextProcessedAlways(cnt, ok) == cnt + 1

nextProcessed(cnt, ok) == IF ok THEN cnt + 1 ELSE cnt

nextErrors(cnt, ok) == IF ok THEN cnt ELSE cnt + 1

\* glob scan, the early return on an empty match set, mkdir of the output
\* root, initialisation of the counters
ScanMkdirFirst ==
    /\ pc = "scan"
    /\ LET found == globScan(op, recursive, nEntries)
       IN /\ files' = found
          /\ stage' = [p \in 1..Len(found) |-> "idle"]
          /\ started' = [p \in 1..Len(found) |-> 0]
          /\ fsDirs' = mkdirRecursive(fsDirs, outputDir)
          /\ IF Len(found) = 0
             THEN Return(SuccessResult(0))
             ELSE /\ pc' = "loop"
                  /\ UNCHANGED <<outcome, thrown, result>>
    /\ i' = 0
    /\ processed' = 0
    /\ errors' = 0
    /\ errorMessages' = <<>>
    /\ UNCHANGED <<input, fsFiles>>

Scan ==
    /\ pc = "scan"
    /\ LET found == globScan(op, recursive, nEntries)
       IN /\ files' = found
          /\ stage' = [p \in 1..Len(found) |-> "idle"]
          /\ started' = [p \in 1..Len(found) |-> 0]
          /\ IF Len(found) = 0
             THEN /\ Return(SuccessResult(0))
                  /\ UNCHANGED fsDirs
             ELSE /\ fsDirs' = mkdirRecursive(fsDirs, outputDir)
                  /\ pc' = "loop"
                  /\ UNCHANGED <<outcome, thrown, result>>
    /\ i' = 0
    /\ processed' = 0
    /\ errors' = 0
    /\ errorMessages' = <<>>
    /\ UNCHANGED <<input, fsFiles>>

\* loop test true: batch.map(async ...) starts every task of the slice,
\* each running up to its first await (the mkdir of its output directory)
StartBatch ==
    /\ pc = "loop"
    /\ i < Len(files)
    /\ LET batch == slice(i, batchSize(op), Len(files))
       IN /\ stage' = [p \in DOMAIN stage |->
                          IF p \in batch THEN "mkdir" ELSE stage[p]]
          /\ started' = [p \in DOMAIN started |->
                          IF p \in batch THEN started[p] + 1 ELSE started[p]]
    /\ pc' = "await"
    /\ UNCHANGED <<input, files, i, processed, errors, errorMessages,
                   fsDirs, fsFiles, outcome, thrown, result>>

\* a task's fs.mkdir(outputFileDir) completes; it calls processSingleFile
TaskMkdir(p) ==
    /\ p \in DOMAIN stage
    /\ stage[p] = "mkdir"
    /\ fsDirs' = mkdirRecursive(fsDirs,
                    dirname(outputFile(inputDir, outputDir, files[p])))
    /\ stage' = [stage EXCEPT ![p] = "run"]
    /\ UNCHANGED <<input, pc, files, i, started, processed, errors,
                   errorMessages, fsFiles, outcome, thrown, result>>

\* a task's processSingleFile settles; processed++ or the catch block
TaskRunNoCatch(p) ==
    /\ p \in DOMAIN stage
    /\ stage[p] = "run"
    /\ pc # "done"
    /\ LET out == outputFile(inputDir, outputDir, files[p])
           r == processSingleFile(op, files[p] \in faulty, options)
       IN /\ fsDirs' = mkdirRecursive(fsDirs, dirname(out))
          /\ fsFiles' = IF r.wrote = "none" THEN fsFiles
                        ELSE fsFiles \cup {[path |-> out, by |-> files[p],
                                            content |-> r.wrote]}
          /\ processed' = nextProcessed(processed, r.ok)
          /\ stage' = [stage EXCEPT ![p] = IF r.ok THEN "ok" ELSE "failed"]
          /\ IF r.ok THEN UNCHANGED <<pc, outcome, thrown, result>>
             ELSE Throw(r.err)
    /\ UNCHANGED <<input, files, i, started, errors, errorMessages>>

TaskRun(p) ==
    /\ p \in DOMAIN stage
    /\ stage[p] = "run"
    /\ LET out == outputFile(inputDir, outputDir, files[p])
           r == processSingleFile(op, files[p] \in faulty, options)
       IN /\ fsDirs' = mkdirRecursive(fsDirs, dirname(out))
          /\ fsFiles' = IF r.wrote = "none" THEN fsFiles
                        ELSE fsFiles \cup {[path |-> out, by |-> files[p],
                                            content |-> r.wrote]}
          /\ processed' = nextProcessed(processed, r.ok)
          /\ errors' = nextErrors(errors, r.ok)
          /\ errorMessages' = IF r.ok THEN errorMessages
                              ELSE Append(errorMessages,
                                          errorMessage(op, files[p], r.err))
          /\ stage' = [stage EXCEPT ![p] = IF r.ok THEN "ok" ELSE "failed"]
    /\ UNCHANGED <<input, pc, files, i, started, outcome, thrown, result>>

AwaitAllSkipBatch ==
    /\ pc = "await"
    /\ allSettled(stage, slice(i, batchSize(op), Len(files)))
    /\ i' = nextIndex(nextIndex(i, batchSize(op)), batchSize(op))
    /\ pc' = "loop"
    /\ UNCHANGED <<input, files, stage, started, processed, errors,
                   errorMessages, fsDirs, fsFiles, outcome, thrown, result>>

\* Promise.all of the batch resolves; i += batchSize
AwaitAll ==
    /\ pc = "await"
    /\ allSettled(stage, slice(i, batchSize(op), Len(files)))
    /\ i' = nextIndex(i, batchSize(op))
    /\ pc' = "loop"
    /\ UNCHANGED <<input, files, stage, started, processed, errors,
                   errorMessages, fsDirs, fsFiles, outcome, thrown, result>>

\* loop test false: the result is returned
ReturnResult ==
    /\ pc = "loop"
    /\ ~(i < Len(files))
    /\ Return(ProcessingResult(processed, errors, errorMessages))
    /\ UNCHANGED <<input, loopVars, fsDirs, fsFiles>>

Next ==
    \/ Validate
    \/ CheckInput
    \/ SingleFile
    \/ Scan
    \/ StartBatch
    \/ \E p \in 1..MaxFiles : TaskMkdir(p)
    \/ \E p \in 1..MaxFiles : TaskRun(p)
    \/ AwaitAll
    \/ ReturnResult

Spec == Init /\ [][Next]_vars

\* ------------------------------------------------------------ properties
\* the listed entries the operation's extension list and recursion flag select
MatchingEntries ==
    {k \in 1..nEntries :
        /\ Tree[k].ext \in formatPattern(op)
        /\ (recursive \/ Tree[k].dir = inputDir)}

\* the per-file operation succeeds on listed entry k
Succeeds(k) == processSingleFile(op, Tree[k] \in faulty, options).ok

DirectoryReturned == inputKind = "dir" /\ outcome = "returned"

\* C1: a directory call returns processed = number of matching files whose
\* operation succeeded, errors = number of matching files whose operation
\* failed, processed + errors = number of matching files and
\* success = (errors = 0), under every interleaving of the task completions;
\* non-matching files are counted in neither field.
C1_ResultAggregation ==
    DirectoryReturned =>
        /\ result.processed = Cardinality({k \in MatchingEntries : Succeeds(k)})
        /\ result.errors = Cardinality({k \in MatchingEntries : ~Succeeds(k)})
        /\ result.processed + result.errors = Cardinality(MatchingEntries)
        /\ result.success = (result.errors = 0)

\* seven matching files and non-matching ones listed, two of the seven fail
C1_Witness ==
    /\ DirectoryReturned
    /\ Cardinality(MatchingEntries) = 7
    /\ nEntries > Cardinality(MatchingEntries)
    /\ result.processed = 5
    /\ result.errors = 2
    /\ ~result.success

\* the batch (0-based) the loop puts position p in
BatchOf(p) == (p - 1) \div batchSize(op)

\* C2: no task of batch k+1 is started before every task of batch k has
\* settled, for every batch index, also when tasks of batch k fail.
C2_BatchBoundary ==
    \A p \in DOMAIN stage : \A q \in DOMAIN stage :
        (started[p] > 0 /\ BatchOf(q) < BatchOf(p)) => Settled(stage[q])

\* a task of the second batch is running after a first batch that had a
\* failing and a succeeding task
C2_Witness ==
    /\ \E p \in DOMAIN stage : BatchOf(p) = 1 /\ InFlight(stage[p])
    /\ \E q \in DOMAIN stage : BatchOf(q) = 0 /\ stage[q] = "failed"
    /\ \E q \in DOMAIN stage : BatchOf(q) = 0 /\ stage[q] = "ok"

\* C3: the number of tasks started and not yet settled never exceeds the
\* operation's batch size (3 for watermark, 5 for resize and strip).
C3_PeakConcurrency ==
    /\ Cardinality({p \in DOMAIN stage : InFlight(stage[p])})
          <= (IF op = "watermark" THEN 3 ELSE 5)
    /\ \A p \in DOMAIN stage : started[p] = 0 => stage[p] = "idle"

\* a full batch in flight while more discovered files wait for their batch
C3_Witness ==
    /\ op \in {"resize", "strip"}
    /\ Cardinality({p \in DOMAIN stage : InFlight(stage[p])}) = 5
    /\ \E p \in DOMAIN stage : stage[p] = "idle"

\* C4: every discovered file's operation is started exactly once whatever
\* the outcome of the other files; a failed file is never started again.
C4_StartedExactlyOnce ==
    /\ \A p \in DOMAIN started : started[p] <= 1
    /\ Cardinality(Range(files)) = Len(files)
    /\ DirectoryReturned =>
          /\ Range(files) = {Tree[k] : k \in MatchingEntries}
          /\ \A p \in DOMAIN started : started[p] = 1 /\ Settled(stage[p])

\* a call that returned after a failure in its first batch, with a sibling
\* in that batch and a file in a later batch that succeeded
C4_Witness ==
    /\ DirectoryReturned
    /\ \E q \in DOMAIN stage : BatchOf(q) = 0 /\ stage[q] = "failed"
    /\ \E q \in DOMAIN stage : BatchOf(q) = 0 /\ stage[q] = "ok"
    /\ \E q \in DOMAIN stage : BatchOf(q) > 0 /\ stage[q] = "ok"

PerFileFailures ==
    {"OverlayNotFound", "UnsupportedOverlayFormat", "InvalidSize",
     "InvalidPadding", "UnreadableImage"}

\* exactly one of text / image is set (a set option is a non-empty string)
OneKindSet == (options.text \notin {Undef, ""}) # (options.image \notin {Undef, ""})

\* C5: the same per-file failure makes a single-file watermark call fail
\* with that error and return no result, while a directory call never fails
\* because of it: it returns a result that counts the file in errors, and
\* the remaining files are still processed.
C5_PropagationPolicy ==
    (op = "watermark" /\ OneKindSet /\ pc = "done") =>
        /\ (inputKind = "file"
            /\ ~processSingleFile(op, singleInput \in faulty, options).ok) =>
              /\ outcome = "threw"
              /\ thrown = processSingleFile(op, singleInput \in faulty, options).err
              /\ thrown \in PerFileFailures
              /\ result = NoResult
        /\ inputKind = "dir" =>
              /\ outcome = "returned"
              /\ \A k \in MatchingEntries :
                    IF Succeeds(k)
                    THEN \E w \in fsFiles : w.by = Tree[k]
                    ELSE \E m \in 1..Len(result.errorMessages.list) :
                            /\ result.errorMessages.list[m].path = Tree[k]
                            /\ result.errorMessages.list[m].error \in PerFileFailures
              /\ result.errors = Cardinality({k \in MatchingEntries : ~Succeeds(k)})

\* a directory call that returned with a failed file and a processed one
C5_Witness ==
    /\ op = "watermark"
    /\ DirectoryReturned
    /\ result.errors > 0
    /\ result.processed > 0
    /\ \E m \in 1..Len(result.errorMessages.list) :
          result.errorMessages.list[m].error = "UnreadableImage"

\* C6: at every point of a directory run and in the returned result the
\* number of error messages equals the errors counter, with exactly one
\* message per failing file naming its path; the result carries a message
\* list if and only if errors > 0.
C6_MessagesMatchErrors ==
    /\ Len(errorMessages) = errors
    /\ \A p \in DOMAIN stage :
          Cardinality({m \in 1..Len(errorMessages) :
                          errorMessages[m].path = files[p]})
             = (IF stage[p] = "failed" THEN 1 ELSE 0)
    /\ outcome = "returned" =>
          /\ result.errorMessages.present = (result.errors > 0)
          /\ Len(result.errorMessages.list) = result.errors
          /\ inputKind = "dir" => result.errorMessages.list = errorMessages

\* a returned result with two failures and its two messages
C6_Witness ==
    /\ DirectoryReturned
    /\ result.errors = 2
    /\ result.errorMessages.present
    /\ Len(result.errorMessages.list) = 2

\* C7: addWatermark with both text and image set, or with neither, fails
\* (AmbiguousWatermarkKind) for file and directory input alike, before the
\* input path is checked, before any directory or file is created and
\* before any per-file processing starts.
C7_AmbiguousKindRejected ==
    (op = "watermark" /\ ~OneKindSet) =>
        /\ pc \in {"validate", "done"}
        /\ pc = "done" => (outcome = "threw" /\ thrown = "AmbiguousWatermarkKind")
        /\ fsDirs = InitialDirs(inputKind, nEntries)
        /\ fsFiles = {}
        /\ files = <<>>
        /\ \A p \in DOMAIN started : started[p] = 0

\* a directory call with both options set has been rejected
C7_Witness ==
    /\ op = "watermark"
    /\ inputKind = "dir"
    /\ options.text = "W"
    /\ options.image = "logo.png"
    /\ outcome = "threw"
    /\ thrown = "AmbiguousWatermarkKind"

\* C8: each discovered file is written to the output root joined with its
\* path relative to the input root, its output subdirectory exists before
\* its write begins, and no two tasks write the same output file.
C8_PathMirroring ==
    inputKind = "dir" =>
        /\ \A w \in fsFiles :
              /\ w.by \in Range(files)
              /\ w.path.dir = outputDir
                    \o SubSeq(w.by.dir, Len(inputDir) + 1, Len(w.by.dir))
              /\ w.path.name = w.by.name
              /\ w.path.ext = w.by.ext
              /\ w.path.dir \in fsDirs
        /\ \A p \in DOMAIN stage :
              stage[p] = "run" =>
                 (outputDir \o SubSeq(files[p].dir, Len(inputDir) + 1,
                                      Len(files[p].dir))) \in fsDirs
        /\ \A w1 \in fsFiles : \A w2 \in fsFiles :
              w1.path = w2.path => w1.by = w2.by

\* a recursive run wrote a.jpg of the root and a.jpg of the subdirectory
C8_Witness ==
    /\ inputKind = "dir"
    /\ recursive
    /\ \E w \in fsFiles : w.by = Tree[2] /\ w.path.dir = <<"out", "sub">>
    /\ \E w \in fsFiles : w.by = Tree[3] /\ w.path.dir = <<"out">>

\* C9: a watermark directory call over a directory with no matching file
\* returns {success:true, processed:0, errors:0}, starts no per-file task
\* and leaves the file system unchanged (no output directory).
C9_WatermarkEmptyDirectory ==
    (op = "watermark" /\ inputKind = "dir" /\ OneKindSet
     /\ MatchingEntries = {} /\ pc = "done") =>
        /\ outcome = "returned"
        /\ result = [success |-> TRUE, processed |-> 0, errors |-> 0,
                     errorMessages |-> [present |-> FALSE, list |-> <<>>]]
        /\ \A p \in DOMAIN started : started[p] = 0
        /\ fsDirs = InitialDirs("dir", nEntries)
        /\ outputDir \notin fsDirs
        /\ fsFiles = {}

\* the call returned for a directory that lists only a non-matching file
C9_Witness ==
    /\ op = "watermark"
    /\ inputKind = "dir"
    /\ nEntries > 0
    /\ MatchingEntries = {}
    /\ outcome = "returned"

\* C10 (as claimed): a strip or resize directory call over a directory with
\* no matching file returns the zero result and leaves an empty output
\* directory created.
C10_OutputDirectoryCreated ==
    (op \in {"strip", "resize"} /\ inputKind = "dir"
     /\ MatchingEntries = {} /\ pc = "done") =>
        /\ outcome = "returned"
        /\ result.success /\ result.processed = 0 /\ result.errors = 0
        /\ outputDir \in fsDirs

\* C10 (amended): a strip or resize directory call over a directory with no
\* matching file returns the zero result and does not create the output
\* directory.
C10_NoOutputDirectory ==
    (op \in {"strip", "resize"} /\ inputKind = "dir"
     /\ MatchingEntries = {} /\ pc = "done") =>
        /\ outcome = "returned"
        /\ result.success /\ result.processed = 0 /\ result.errors = 0
        /\ ~result.errorMessages.present
        /\ outputDir \notin fsDirs
        /\ fsDirs = InitialDirs("dir", nEntries)
        /\ fsFiles = {}

\* a resize call returned for a directory that lists only non-matching files
C10_Witness ==
    /\ op = "resize"
    /\ inputKind = "dir"
    /\ nEntries > 0
    /\ MatchingEntries = {}
    /\ outcome = "returned"
    /\ pc = "done"

\* =======================================================================
\* Step-level model of one single-file watermark call: addWatermark on a
\* file input followed by processSingleFile, one action per statement group
\* that can throw.  The other variables stay idle.
\* =======================================================================
CallIdle ==
    /\ op = "watermark"
    /\ inputKind = "file"
    /\ recursive = FALSE
    /\ nEntries = 0
    /\ faulty = {}
    /\ options = Idle
    /\ pc = "done"
    /\ files = <<>>
    /\ i = 0
    /\ stage = <<>>
    /\ started = <<>>
    /\ processed = 0
    /\ errors = 0
    /\ errorMessages = <<>>
    /\ fsDirs = {}
    /\ fsFiles = {}
    /\ outcome = "running"
    /\ thrown = "none"
    /\ result = NoResult

\* option bags of the step-level run (positions: a corner, center and an
\* unrecognized string)
FileOptionCases ==
    {[text |-> t, image |-> img, position |-> pos,
      paddingX |-> px, paddingY |-> py, size |-> sz] :
        t \in {Undef, "W"},
        img \in {Undef, "logo.png", "scan.tiff", "missing.svg"},
        pos \in {"bottom-right", "center", "nowhere"},
        px \in {PadAbsent, PadNegative},
        py \in {PadAbsent, PadNegative},
        sz \in {SizeAbsent, SizeString(25), SizeString(0), SizeNumber(150),
                SizeNumber(0), SizeNotANumber}}

FileInit ==
    /\ CallIdle
    /\ call \in [options : FileOptionCases,
                 inputExists : BOOLEAN,   \* fs.access(inputPath) succeeds
                 corrupt : BOOLEAN,       \* sharp cannot decode the input
                 outBefore : {"absent", "old"}]
    /\ run = [step |-> "KindCheck", trace |-> <<>>, error |-> "none",
              out |-> call.outBefore, dirMade |-> FALSE]
    /\ args = Idle
    /\ ret = Idle

\* parsePadding throws for paddingX or paddingY (skipped for center)
paddingThrows(o) ==
    /\ o.position # "center"
    /\ \/ parsePaddingThrows(paddingOrDefault(o.paddingX))
       \/ parsePaddingThrows(paddingOrDefault(o.paddingY))

\* if (options.text) ... else if (options.image) ...
afterLoadCanvasNoAccess(o) ==
    IF Truthy(o.text) THEN "TextPath"
    ELSE IF Truthy(o.image) THEN "Padding"
    ELSE "EncodeAndWrite"

afterLoadCanvas(o) ==
    IF Truthy(o.text) THEN "TextPath"
    ELSE IF Truthy(o.image) THEN "OverlayAccess"
    ELSE "EncodeAndWrite"

\* the overlay format is rejected
formatThrows(o) == overlayFormat(o.image) \notin supportedFormats

\* one step of the run: it throws err when fails holds, else goes on to next
Step(name, fails, err, next) ==
    /\ run.step = name
    /\ run' = IF fails
              THEN [run EXCEPT !.step = "Failed", !.error = err,
                               !.trace = Append(@, name)]
              ELSE [run EXCEPT !.step = next, !.trace = Append(@, name)]
    /\ UNCHANGED <<callVars, call, args, ret>>

\* addWatermark: the two option checks
FileKindCheck ==
    Step("KindCheck", ~watermarkKindValid(call.options),
         "AmbiguousWatermarkKind", "InputAccess")

\* addWatermark: fs.access / fs.stat of the input path
FileInputAccess ==
    Step("InputAccess", ~call.inputExists, "InputNotFound", "Mkdir")

\* processSingleFile: fs.mkdir(path.dirname(outputPath))
FileMkdirAndTouch ==
    /\ run.step = "Mkdir"
    /\ run' = [run EXCEPT !.step = "LoadCanvas", !.trace = Append(@, "Mkdir"),
                          !.dirMade = TRUE, !.out = "empty"]
    /\ UNCHANGED <<callVars, call, args, ret>>

FileMkdir ==
    /\ run.step = "Mkdir"
    /\ run' = [run EXCEPT !.step = "LoadCanvas", !.trace = Append(@, "Mkdir"),
                          !.dirMade = TRUE]
    /\ UNCHANGED <<callVars, call, args, ret>>

\* processSingleFile: sharp(inputPath).metadata()
FileLoadCanvas ==
    Step("LoadCanvas", call.corrupt, "UnreadableImage",
         afterLoadCanvas(call.options))

\* text branch: opacity, font size, padding, position, the SVG overlay
FileTextPath ==
    Step("TextPath", paddingThrows(call.options), "InvalidPadding", "Composite")

\* image branch: fs.access(watermarkPath)
FileOverlayAccess ==
    Step("OverlayAccess", call.options.image \notin OverlayFiles,
         "OverlayNotFound", "Padding")

\* image branch: opacity, position, parsePadding of both paddings
FilePadding ==
    Step("Padding", paddingThrows(call.options), "InvalidPadding", "FormatCheck")

\* image branch: overlay metadata and the allow-list of formats
FileFormatCheck ==
    Step("FormatCheck", formatThrows(call.options),
         "UnsupportedOverlayFormat", "SizeCheck")

\* image branch: sizePercent and its range check
FileSizeCheck ==
    Step("SizeCheck", sizeThrows(call.options.size), "InvalidSize", "OverlayResize")

\* image branch: calculateWatermarkSize, resize, calculateImagePosition
FileOverlayResize == Step("OverlayResize", FALSE, "none", "Opacity")

\* image branch: the alpha channel of the overlay is scaled by opacity
FileOpacity == Step("Opacity", FALSE, "none", "Composite")

\* pipeline.composite([...])
FileComposite == Step("Composite", FALSE, "none", "EncodeAndWrite")

\* format by output extension, pipeline.toFile(outputPath)
FileEncodeAndWrite ==
    /\ run.step = "EncodeAndWrite"
    /\ run' = [run EXCEPT !.step = "Done", !.trace = Append(@, "EncodeAndWrite"),
                          !.out = "watermarked"]
    /\ UNCHANGED <<callVars, call, args, ret>>

FileNext ==
    \/ FileKindCheck
    \/ FileInputAccess
    \/ FileMkdir
    \/ FileLoadCanvas
    \/ FileTextPath
    \/ FileOverlayAccess
    \/ FilePadding
    \/ FileFormatCheck
    \/ FileSizeCheck
    \/ FileOverlayResize
    \/ FileOpacity
    \/ FileComposite
    \/ FileEncodeAndWrite

SpecFile == FileInit /\ [][FileNext]_vars

\* ------------------------------------------------- claims on the file run
IsPrefixOf(s, t) == Len(s) <= Len(t) /\ SubSeq(t, 1, Len(s)) = s

\* the steps of a complete text run and of a complete image run, in the
\* order the code executes them
TextRun == <<"KindCheck", "InputAccess", "Mkdir", "LoadCanvas", "TextPath",
             "Composite", "EncodeAndWrite">>
ImageRun == <<"KindCheck", "InputAccess", "Mkdir", "LoadCanvas",
              "OverlayAccess", "Padding", "FormatCheck", "SizeCheck",
              "OverlayResize", "Opacity", "Composite", "EncodeAndWrite">>

\* the image run with the overlay-existence check as a part of validation,
\* ahead of the canvas read
ImageRunValidateFirst == <<"KindCheck", "InputAccess", "Mkdir", "OverlayAccess",
              "LoadCanvas", "Padding", "FormatCheck", "SizeCheck",
              "OverlayResize", "Opacity", "Composite", "EncodeAndWrite">>

\* the steps that raise a given error
ThrowingSteps(err) ==
    CASE err = "AmbiguousWatermarkKind" -> {"KindCheck"}
      [] err = "InputNotFound" -> {"InputAccess"}
      [] err = "UnreadableImage" -> {"LoadCanvas"}
      [] err = "OverlayNotFound" -> {"OverlayAccess"}
      [] err = "InvalidPadding" -> {"TextPath", "Padding"}
      [] err = "UnsupportedOverlayFormat" -> {"FormatCheck"}
      [] err = "InvalidSize" -> {"SizeCheck"}
      [] OTHER -> {}

\* the run follows one of the given step sequences: it has executed a prefix
\* of it, the whole of it when Done, and when Failed the last step executed
\* is the one that raised the error
Follows(textSteps, imageSteps) ==
    /\ \/ IsPrefixOf(run.trace, textSteps)
       \/ IsPrefixOf(run.trace, imageSteps)
    /\ run.step = "Done" =>
          /\ run.trace \in {textSteps, imageSteps}
          /\ run.error = "none"
    /\ run.step = "Failed" =>
          /\ run.trace # <<>>
          /\ run.trace[Len(run.trace)] \in ThrowingSteps(run.error)
    /\ run.step \notin {"Done", "Failed"} => run.error = "none"

\* C11 as stated: a file run visits Validate, LoadCanvas, one of TextPath or
\* ImagePath, Composite, EncodeAndWrite in this order and ends in Done or
\* Failed with no step after a failing one, the overlay-existence check of
\* the image kind being made before LoadCanvas reads the canvas.
C11_OverlayCheckedBeforeCanvas == Follows(TextRun, ImageRunValidateFirst)

\* C11 amended: a file run visits Validate (kind, input), LoadCanvas, one of
\* TextPath or ImagePath, Composite, EncodeAndWrite in this order and ends in
\* Done or Failed with no step after a failing one; the overlay-existence
\* check is the first step of ImagePath, made after LoadCanvas has read the
\* canvas.
C11_StepOrder == Follows(TextRun, ImageRun)

C11_Witness ==
    /\ run.step = "Failed"
    /\ run.error = "OverlayNotFound"
    /\ run.trace = <<"KindCheck", "InputAccess", "Mkdir", "LoadCanvas", "OverlayAccess">>

\* a completed image call whose overlay exists and decodes to a format
\* outside the allow-list, on a readable input
UnsupportedOverlayCall ==
    /\ run.step \in {"Done", "Failed"}
    /\ ~Truthy(call.options.text)
    /\ call.options.image \in OverlayFiles
    /\ overlayFormat(call.options.image) \notin {"jpeg", "png", "svg", "webp"}
    /\ call.inputExists
    /\ ~call.corrupt

\* C12 as stated: an image call whose overlay exists and decodes to a format
\* outside jpeg, png, svg, webp fails with UnsupportedOverlayFormat whatever
\* the other options are: the format check precedes padding and size checks.
C12_UnsupportedFormatAlways ==
    UnsupportedOverlayCall =>
        run.step = "Failed" /\ run.error = "UnsupportedOverlayFormat"

\* C12 amended: such a call always fails; with InvalidPadding when the
\* position is not center and a padding is invalid, and with
\* UnsupportedOverlayFormat otherwise, whatever the size is: the format
\* check is made after the paddings are parsed and before the size check.
C12_UnsupportedFormatAfterPadding ==
    UnsupportedOverlayCall =>
        /\ run.step = "Failed"
        /\ run.error = IF paddingThrows(call.options)
                       THEN "InvalidPadding"
                       ELSE "UnsupportedOverlayFormat"

C12_Witness ==
    /\ UnsupportedOverlayCall
    /\ run.error = "UnsupportedOverlayFormat"
    /\ sizeThrows(call.options.size)
    /\ call.options.position = "center"
    /\ call.options.paddingX = PadNegative

\* C13: when a file run ends in failure the output file has not been
\* written: it is absent if it was absent, unchanged if it existed; only the
\* output directory may have been created.
C13_FailureLeavesOutput ==
    run.step = "Failed" => run.out = call.outBefore

C13_Witness ==
    /\ run.step = "Failed"
    /\ run.error = "InvalidSize"
    /\ run.dirMade
    /\ call.outBefore = "old"
    /\ run.out = "old"

\* =======================================================================
\* The geometry helpers of lib/watermark.ts as functions on exact rationals.
\* A rational is a record [num, den] with den > 0.
\* =======================================================================
MaxCanvas == 5        \* canvas sides range over 1..MaxCanvas
MaxOverlay == 3       \* overlay sides range over 1..MaxOverlay

Min(a, b) == IF a <= b THEN a ELSE b
Max(a, b) == IF a >= b THEN a ELSE b

Q(n, d) == [num |-> n, den |-> d]
QLeq(a, b) == a.num * b.den <= b.num * a.den
QMin(a, b) == IF QLeq(a, b) THEN a ELSE b
QMax(a, b) == IF QLeq(a, b) THEN b ELSE a
QIsInt(a) == a.num % a.den = 0

\* Math.floor of a rational
Floor(a) == a.num \div a.den

\* Math.round(a): the nearest integer, a half rounding up.  The argument is
\* computed in double precision, and when its exact value lies on a half the
\* double may fall just short of it: tieDown says it does.
IsTie(a) == (2 * a.num) % (2 * a.den) = a.den
jsRound(a, tieDown) ==
    IF IsTie(a) /\ tieDown THEN Floor(a)
    ELSE (2 * a.num + a.den) \div (2 * a.den)

calculateWatermarkSizeCover(watermarkWidth, watermarkHeight, imageWidth, imageHeight, sizePercent, tieW, tieH) ==
    LET maxDimension == Q(Min(imageWidth, imageHeight) * sizePercent, 100)
        scaleX == Q(maxDimension.num, maxDimension.den * watermarkWidth)
        scaleY == Q(maxDimension.num, maxDimension.den * watermarkHeight)
        scale == QMax(scaleX, scaleY)
    IN [width |-> jsRound(Q(watermarkWidth * scale.num, scale.den), tieW),
        height |-> jsRound(Q(watermarkHeight * scale.num, scale.den), tieH)]

calculateWatermarkSize(watermarkWidth, watermarkHeight, imageWidth, imageHeight, sizePercent, tieW, tieH) ==
    LET maxDimension == Q(Min(imageWidth, imageHeight) * sizePercent, 100)
        scaleX == Q(maxDimension.num, maxDimension.den * watermarkWidth)
        scaleY == Q(maxDimension.num, maxDimension.den * watermarkHeight)
        scale == QMin(scaleX, scaleY)
    IN [width |-> jsRound(Q(watermarkWidth * scale.num, scale.den), tieW),
        height |-> jsRound(Q(watermarkHeight * scale.num, scale.den), tieH)]

\* calculateWatermarkSize is called with the overlay and canvas sizes and a
\* size percent that passed the range check
SizeInit ==
    /\ CallIdle
    /\ call = Idle
    /\ run = Idle
    /\ args \in [fn : {"calculateWatermarkSize"},
                 watermarkWidth : 1..MaxOverlay,
                 watermarkHeight : 1..MaxOverlay,
                 imageWidth : 1..MaxCanvas,
                 imageHeight : 1..MaxCanvas,
                 sizePercent : 1..100,
                 tieW : BOOLEAN,
                 tieH : BOOLEAN]
    /\ ret = Idle

CallWatermarkSize ==
    /\ args.fn = "calculateWatermarkSize"
    /\ ret = Idle
    /\ ret' = calculateWatermarkSize(args.watermarkWidth, args.watermarkHeight,
                                     args.imageWidth, args.imageHeight,
                                     args.sizePercent, args.tieW, args.tieH)
    /\ UNCHANGED <<callVars, call, run, args>>

SpecSize == SizeInit /\ [][CallWatermarkSize]_vars

Abs(n) == IF n < 0 THEN 0 - n ELSE n

\* round(min(canvas_w, canvas_h) * size_percent / 100)
SizeBound ==
    jsRound(Q(Min(args.imageWidth, args.imageHeight) * args.sizePercent, 100), FALSE)

\* C14: for a size percent in (0, 100] and positive overlay and canvas
\* dimensions, the width and the height returned by calculateWatermarkSize
\* are each at most round(min(canvas_w, canvas_h) * size_percent / 100), and
\* their ratio is the overlay's ratio up to the rounding of each dimension
\* (each is within one half of a pair in exactly the overlay's ratio).
C14_WatermarkSizeBound ==
    ret # Idle =>
        /\ ret.width <= SizeBound
        /\ ret.height <= SizeBound
        /\ 2 * Abs(ret.width * args.watermarkHeight - ret.height * args.watermarkWidth)
              <= args.watermarkWidth + args.watermarkHeight

C14_Witness ==
    /\ ret # Idle
    /\ args.watermarkWidth = 3
    /\ args.watermarkHeight = 2
    /\ args.imageWidth = 5
    /\ args.imageHeight = 4
    /\ args.sizePercent = 75
    /\ ret.width = 3
    /\ ret.height = 2

\* =======================================================================
\* parsePadding on strings.  A string is a sequence of one-character
\* strings over Chars.
\* =======================================================================
MaxLen == 4           \* padding strings have at most MaxLen characters

Digits == {"0", "1", "2"}
Chars == Digits \cup {"-", ".", "%", "x"}
DigitVal(c) == CASE c = "0" -> 0 [] c = "1" -> 1 [] c = "2" -> 2

Strings(n) == UNION {[1..k -> Chars] : k \in 0..n}

RECURSIVE Pow10(_)
Pow10(n) == IF n = 0 THEN 1 ELSE 10 * Pow10(n - 1)

RECURSIVE GCD(_, _)
GCD(a, b) == IF b = 0 THEN a ELSE GCD(b, a % b)

\* a rational in lowest terms
Reduce(a) ==
    LET g == GCD(Abs(a.num), a.den)
    IN Q(a.num \div g, a.den \div g)

QEq(a, b) == Reduce(a) = Reduce(b)
QLt(a, b) == a.num * b.den < b.num * a.den

\* the number of digit characters of s from position k on
RECURSIVE DigitRun(_, _)
DigitRun(s, k) ==
    IF k <= Len(s) /\ s[k] \in Digits THEN 1 + DigitRun(s, k + 1) ELSE 0

\* the decimal value of the n digits of s that start at position from
RECURSIVE DigitsValue(_, _, _)
DigitsValue(s, from, n) ==
    IF n = 0 THEN 0
    ELSE 10 * DigitsValue(s, from, n - 1) + DigitVal(s[from + n - 1])

\* parseFloat: an optional sign, then the longest prefix that reads as
\* digits with an optional fraction; NaN when there is no digit; whatever
\* follows the number is ignored
parseFloat(s) ==
    LET neg == Len(s) >= 1 /\ s[1] = "-"
        start == IF neg THEN 2 ELSE 1
        ni == DigitRun(s, start)
        dot == start + ni <= Len(s) /\ s[start + ni] = "."
        nf == IF dot THEN DigitRun(s, start + ni + 1) ELSE 0
        mag == DigitsValue(s, start, ni) * Pow10(nf)
                   + DigitsValue(s, start + ni + 1, nf)
    IN IF ni = 0 /\ nf = 0
       THEN [nan |-> TRUE, val |-> Q(0, 1)]
       ELSE [nan |-> FALSE, val |-> Q(IF neg THEN 0 - mag ELSE mag, Pow10(nf))]

endsWith(s, c) == Len(s) >= 1 /\ s[Len(s)] = c

\* value.slice(0, -1)
sliceLast(s) == SubSeq(s, 1, Len(s) - 1)

Thrown == [threw |-> TRUE, val |-> Q(0, 1)]
Returned(v) == [threw |-> FALSE, val |-> v]

parsePaddingNoUpper(value, dimension) ==
    IF endsWith(value, "%")
    THEN LET percent == parseFloat(sliceLast(value))
         IN IF percent.nan \/ QLt(percent.val, Q(0, 1))
            THEN Thrown
            ELSE Returned(Q(dimension * percent.val.num, 100 * percent.val.den))
    ELSE LET pixels == parseFloat(value)
         IN IF pixels.nan \/ QLt(pixels.val, Q(0, 1))
            THEN Thrown
            ELSE Returned(pixels.val)

parsePadding(value, dimension) ==
    IF endsWith(value, "%")
    THEN LET percent == parseFloat(sliceLast(value))
         IN IF percent.nan \/ QLt(percent.val, Q(0, 1)) \/ QLt(Q(100, 1), percent.val)
            THEN Thrown
            ELSE Returned(Q(dimension * percent.val.num, 100 * percent.val.den))
    ELSE LET pixels == parseFloat(value)
         IN IF pixels.nan \/ QLt(pixels.val, Q(0, 1))
            THEN Thrown
            ELSE Returned(pixels.val)

\* the dimensions parsePadding is applied to
Dimensions == {3, 800}

PaddingInit ==
    /\ CallIdle
    /\ call = Idle
    /\ run = Idle
    /\ args \in [fn : {"parsePadding"}, value : Strings(MaxLen),
                 dimension : Dimensions]
    /\ ret = Idle

CallParsePadding ==
    /\ args.fn = "parsePadding"
    /\ ret = Idle
    /\ ret' = parsePadding(args.value, args.dimension)
    /\ UNCHANGED <<callVars, call, run, args>>

SpecPadding == PaddingInit /\ [][CallParsePadding]_vars

\* ------------------------------------------------ claims on parsePadding
\* p is a number written out in full: an optional sign, digits and at most
\* one decimal point, with a digit somewhere
IsNumeral(p) ==
    LET body == IF p # <<>> /\ p[1] = "-" THEN Tail(p) ELSE p
    IN /\ \A k \in 1..Len(body) : body[k] \in Digits \cup {"."}
       /\ Cardinality({k \in 1..Len(body) : body[k] = "."}) <= 1
       /\ \E k \in 1..Len(body) : body[k] \in Digits

RECURSIVE SeqValue(_)
SeqValue(d) ==
    IF d = <<>> THEN 0
    ELSE 10 * SeqValue(SubSeq(d, 1, Len(d) - 1)) + DigitVal(d[Len(d)])

IsDigit(c) == c \in Digits

\* the value of a numeral
NumeralValue(p) ==
    LET neg == p[1] = "-"
        body == IF neg THEN Tail(p) ELSE p
        dots == {k \in 1..Len(body) : body[k] = "."}
        nf == IF dots = {} THEN 0 ELSE Len(body) - (CHOOSE k \in dots : TRUE)
        mag == SeqValue(SelectSeq(body, IsDigit))
    IN Q(IF neg THEN 0 - mag ELSE mag, Pow10(nf))

\* the lengths of the prefixes of s that are numerals
NumeralPrefixes(s) == {k \in 1..Len(s) : IsNumeral(SubSeq(s, 1, k))}

HasNumber(s) == NumeralPrefixes(s) # {}

\* the longest leading numeral of s
LeadingNumber(s) ==
    LET k == CHOOSE k \in NumeralPrefixes(s) : \A j \in NumeralPrefixes(s) : j <= k
    IN NumeralValue(SubSeq(s, 1, k))

InRange(v, lo, hi) == QLeq(Q(lo, 1), v) /\ QLeq(v, Q(hi, 1))

\* C17 as stated: parsePadding returns dimension * p / 100 for "p%" with
\* 0 <= p <= 100, n for a plain number string n >= 0, and fails for every
\* other input.
C17_PaddingStrict ==
    ret # Idle =>
        LET value == args.value
            body == sliceLast(value)
        IN IF endsWith(value, "%") /\ IsNumeral(body)
                  /\ InRange(NumeralValue(body), 0, 100)
           THEN /\ ~ret.threw
                /\ QEq(ret.val, Q(args.dimension * NumeralValue(body).num,
                                  100 * NumeralValue(body).den))
           ELSE IF IsNumeral(value) /\ QLeq(Q(0, 1), NumeralValue(value))
           THEN ~ret.threw /\ QEq(ret.val, NumeralValue(value))
           ELSE ret.threw

\* C17 amended: parsePadding reads the longest leading number of the string
\* (of the part before the final "%" when the string ends with "%") and
\* ignores what follows it; it returns dimension * p / 100 for a percentage
\* 0 <= p <= 100, n for a pixel value n >= 0, and fails when there is no
\* leading number, when it is negative, or when a percentage exceeds 100.
C17_PaddingLenient ==
    ret # Idle =>
        LET value == args.value
            body == sliceLast(value)
        IN IF endsWith(value, "%")
           THEN IF HasNumber(body) /\ InRange(LeadingNumber(body), 0, 100)
                THEN /\ ~ret.threw
                     /\ QEq(ret.val, Q(args.dimension * LeadingNumber(body).num,
                                       100 * LeadingNumber(body).den))
                ELSE ret.threw
           ELSE IF HasNumber(value) /\ QLeq(Q(0, 1), LeadingNumber(value))
                THEN ~ret.threw /\ QEq(ret.val, LeadingNumber(value))
                ELSE ret.threw

\* ("10%", 800) gives 80
C17_Witness ==
    /\ ret # Idle
    /\ args.value = <<"1", "0", "%">>
    /\ args.dimension = 800
    /\ ~ret.threw
    /\ QEq(ret.val, Q(80, 1))

\* =======================================================================
\* Position and padding resolution of a watermark: the text branch and the
\* image branch of processSingleFile up to the offsets of the composition.
\* =======================================================================
QInt(n) == Q(n, 1)
QAdd(a, b) == Q(a.num * b.den + b.num * a.den, a.den * b.den)
QSub(a, b) == Q(a.num * b.den - b.num * a.den, a.den * b.den)

KnownPositions == {"top-left", "top-right", "bottom-left", "bottom-right", "center"}

\* options.position || 'bottom-right'
positionOrDefault(p) == IF Truthy(p) THEN p ELSE "bottom-right"

\* options.paddingX || '20' on strings
paddingOr20(v) == IF v = <<>> THEN <<"2", "0">> ELSE v

calculateTextPositionDefaultCenter(position, width, height, paddingX, paddingY, fontSize) ==
    CASE position = "top-left" ->
            [x |-> paddingX, y |-> QAdd(paddingY, Q(fontSize, 2))]
      [] position = "top-right" ->
            [x |-> QSub(QInt(width), paddingX), y |-> QAdd(paddingY, Q(fontSize, 2))]
      [] position = "bottom-left" ->
            [x |-> paddingX,
             y |-> QSub(QSub(QInt(height), paddingY), Q(fontSize, 2))]
      [] position = "bottom-right" ->
            [x |-> QSub(QInt(width), paddingX),
             y |-> QSub(QSub(QInt(height), paddingY), Q(fontSize, 2))]
      [] OTHER ->
            [x |-> Q(width, 2), y |-> Q(height, 2)]

calculateTextPosition(position, width, height, paddingX, paddingY, fontSize) ==
    CASE position = "top-left" ->
            [x |-> paddingX, y |-> QAdd(paddingY, Q(fontSize, 2))]
      [] position = "top-right" ->
            [x |-> QSub(QInt(width), paddingX), y |-> QAdd(paddingY, Q(fontSize, 2))]
      [] position = "bottom-left" ->
            [x |-> paddingX,
             y |-> QSub(QSub(QInt(height), paddingY), Q(fontSize, 2))]
      [] position = "bottom-right" ->
            [x |-> QSub(QInt(width), paddingX),
             y |-> QSub(QSub(QInt(height), paddingY), Q(fontSize, 2))]
      [] position = "center" ->
            [x |-> Q(width, 2), y |-> Q(height, 2)]
      [] OTHER ->
            [x |-> QSub(QInt(width), paddingX),
             y |-> QSub(QSub(QInt(height), paddingY), Q(fontSize, 2))]

calculateImagePositionNoWidth(position, width, height, watermarkWidth, watermarkHeight, paddingX, paddingY) ==
    CASE position = "top-left" ->
            [x |-> paddingX, y |-> paddingY]
      [] position = "top-right" ->
            [x |-> QSub(QInt(width), paddingX), y |-> paddingY]
      [] position = "bottom-left" ->
            [x |-> paddingX, y |-> QSub(QInt(height - watermarkHeight), paddingY)]
      [] position = "bottom-right" ->
            [x |-> QSub(QInt(width - watermarkWidth), paddingX),
             y |-> QSub(QInt(height - watermarkHeight), paddingY)]
      [] position = "center" ->
            [x |-> Q(width - watermarkWidth, 2), y |-> Q(height - watermarkHeight, 2)]
      [] OTHER ->
            [x |-> QSub(QInt(width - watermarkWidth), paddingX),
             y |-> QSub(QInt(height - watermarkHeight), paddingY)]

calculateImagePosition(position, width, height, watermarkWidth, watermarkHeight, paddingX, paddingY) ==
    CASE position = "top-left" ->
            [x |-> paddingX, y |-> paddingY]
      [] position = "top-right" ->
            [x |-> QSub(QInt(width - watermarkWidth), paddingX), y |-> paddingY]
      [] position = "bottom-left" ->
            [x |-> paddingX, y |-> QSub(QInt(height - watermarkHeight), paddingY)]
      [] position = "bottom-right" ->
            [x |-> QSub(QInt(width - watermarkWidth), paddingX),
             y |-> QSub(QInt(height - watermarkHeight), paddingY)]
      [] position = "center" ->
            [x |-> Q(width - watermarkWidth, 2), y |-> Q(height - watermarkHeight, 2)]
      [] OTHER ->
            [x |-> QSub(QInt(width - watermarkWidth), paddingX),
             y |-> QSub(QInt(height - watermarkHeight), paddingY)]

getTextAnchor(position) ==
    CASE position \in {"top-left", "bottom-left"} -> "start"
      [] position \in {"top-right", "bottom-right"} -> "end"
      [] position = "center" -> "middle"
      [] OTHER -> "end"

\* position === 'center' ? 0 : parsePadding(options.paddingX || '20', width)
resolvePadding(position, value, dimension) ==
    IF position = "center" THEN Returned(QInt(0))
    ELSE parsePadding(paddingOr20(value), dimension)

\* what a geometry computation hands on: the error raised, or the paddings
\* in pixels, the offsets and the text anchor
Geometry(f, px, py, pos, anchor) ==
    IF px.threw \/ py.threw
    THEN [fn |-> f, error |-> "InvalidPadding", paddingX |-> QInt(0),
          paddingY |-> QInt(0), x |-> QInt(0), y |-> QInt(0), anchor |-> "none"]
    ELSE [fn |-> f, error |-> "none", paddingX |-> px.val, paddingY |-> py.val,
          x |-> pos.x, y |-> pos.y, anchor |-> anchor]

\* Math.max(20, Math.round(Math.min(width, height) * (sizePercent / 100)))
fontSizeOf(width, height, sizePercent) ==
    Max(20, jsRound(Q(Min(width, height) * sizePercent, 100), FALSE))

\* the image branch: position, paddings, calculateImagePosition
imageGeometry(optPosition, optPaddingX, optPaddingY, width, height, watermarkWidth, watermarkHeight) ==
    LET position == positionOrDefault(optPosition)
        paddingX == resolvePadding(position, optPaddingX, width)
        paddingY == resolvePadding(position, optPaddingY, height)
    IN Geometry("image", paddingX, paddingY,
                calculateImagePosition(position, width, height, watermarkWidth,
                                       watermarkHeight, paddingX.val, paddingY.val),
                "none")

\* the text branch: position, font size, paddings, calculateTextPosition and
\* getTextAnchor
textGeometry(optPosition, optPaddingX, optPaddingY, width, height) ==
    LET position == positionOrDefault(optPosition)
        fontSize == fontSizeOf(width, height, 5)
        paddingX == resolvePadding(position, optPaddingX, width)
        paddingY == resolvePadding(position, optPaddingY, height)
    IN Geometry("text", paddingX, paddingY,
                calculateTextPosition(position, width, height, paddingX.val,
                                      paddingY.val, fontSize),
                getTextAnchor(position))

\* padding options: "0", "2", "10%", "100%", "-1" and the empty string
PaddingCases == {<<"0">>, <<"2">>, <<"1", "0", "%">>, <<"1", "0", "0", "%">>,
                 <<"-", "1">>, <<>>}

PositionCases == KnownPositions \cup {"nowhere", Undef}

GeometryInit ==
    /\ CallIdle
    /\ call = Idle
    /\ run = Idle
    /\ args \in [fn : {"geometry"},
                 position : PositionCases,
                 paddingX : PaddingCases,
                 paddingY : PaddingCases,
                 width : 1..MaxCanvas,
                 height : 1..MaxCanvas,
                 watermarkWidth : 1..MaxOverlay,
                 watermarkHeight : 1..MaxOverlay]
    /\ ret = Idle

\* calculateImagePosition applied to a position and two paddings in pixels
CallCalculateImagePosition ==
    /\ args.fn = "geometry"
    /\ ret = Idle
    /\ LET paddingX == parsePadding(paddingOr20(args.paddingX), args.width)
           paddingY == parsePadding(paddingOr20(args.paddingY), args.height)
       IN /\ ~paddingX.threw
          /\ ~paddingY.threw
          /\ ret' = Geometry("calculateImagePosition", paddingX, paddingY,
                        calculateImagePosition(positionOrDefault(args.position),
                            args.width, args.height, args.watermarkWidth,
                            args.watermarkHeight, paddingX.val, paddingY.val),
                        "none")
    /\ UNCHANGED <<callVars, call, run, args>>

CallImageGeometry ==
    /\ args.fn = "geometry"
    /\ ret = Idle
    /\ ret' = imageGeometry(args.position, args.paddingX, args.paddingY,
                            args.width, args.height, args.watermarkWidth,
                            args.watermarkHeight)
    /\ UNCHANGED <<callVars, call, run, args>>

CallTextGeometry ==
    /\ args.fn = "geometry"
    /\ ret = Idle
    /\ ret' = textGeometry(args.position, args.paddingX, args.paddingY,
                           args.width, args.height)
    /\ UNCHANGED <<callVars, call, run, args>>

GeometryNext ==
    \/ CallCalculateImagePosition
    \/ CallImageGeometry
    \/ CallTextGeometry

SpecGeometry == GeometryInit /\ [][GeometryNext]_vars

\* ---------------------------------------------------- claims on geometry
\* the content box placed at the returned offsets lies within the canvas
BoxInsideCanvas ==
    /\ QLeq(QInt(0), ret.x)
    /\ QLeq(QAdd(ret.x, QInt(args.watermarkWidth)), QInt(args.width))
    /\ QLeq(QInt(0), ret.y)
    /\ QLeq(QAdd(ret.y, QInt(args.watermarkHeight)), QInt(args.height))

\* the returned offsets center the content box, whatever the paddings
BoxCentered ==
    /\ QEq(ret.x, Q(args.width - args.watermarkWidth, 2))
    /\ QEq(ret.y, Q(args.height - args.watermarkHeight, 2))

ImagePositionReturned == ret # Idle /\ ret.fn = "calculateImagePosition"

\* C15 as stated: for every position, calculateImagePosition returns, when
\* each padding is at most the corresponding canvas dimension, offsets that
\* keep the content box within the canvas for a non-center position, and the
\* centered offsets for center whatever the padding.
C15_BoxInsideWhenPaddingFits ==
    ImagePositionReturned =>
        IF positionOrDefault(args.position) = "center"
        THEN BoxCentered
        ELSE (/\ QLeq(ret.paddingX, QInt(args.width))
              /\ QLeq(ret.paddingY, QInt(args.height))) => BoxInsideCanvas

\* C15 amended: for every position, calculateImagePosition returns, when
\* each padding plus the content dimension is at most the corresponding
\* canvas dimension, offsets that keep the content box within the canvas for
\* a non-center position, and the centered offsets for center whatever the
\* padding.
C15_BoxInsideWhenPaddedContentFits ==
    ImagePositionReturned =>
        IF positionOrDefault(args.position) = "center"
        THEN BoxCentered
        ELSE (/\ QLeq(QAdd(ret.paddingX, QInt(args.watermarkWidth)), QInt(args.width))
              /\ QLeq(QAdd(ret.paddingY, QInt(args.watermarkHeight)), QInt(args.height)))
             => BoxInsideCanvas

C15_Witness ==
    /\ ImagePositionReturned
    /\ args.position = "top-right"
    /\ args.width = 5
    /\ args.watermarkWidth = 3
    /\ ret.paddingX = QInt(2)
    /\ QEq(ret.x, QInt(0))
    /\ QLeq(QAdd(ret.paddingY, QInt(args.watermarkHeight)), QInt(args.height))
    /\ BoxInsideCanvas

\* C16: for every accepted position, accepted padding (pixels or percentage)
\* and integer canvas and overlay dimensions, the left and top offsets handed
\* to the composition of an image watermark are integers.
C16_IntegerOffsets ==
    (ret # Idle /\ ret.fn = "image" /\ ret.error = "none") =>
        QIsInt(ret.x) /\ QIsInt(ret.y)

\* C18: for every position string other than the five known ones the call
\* raises no error of its own and the image offsets, the text coordinates and
\* the text anchor are those of bottom-right with the same inputs.
C18_UnknownPositionIsBottomRight ==
    (ret # Idle /\ args.position \notin KnownPositions) =>
        /\ ret.fn = "image" =>
              ret = imageGeometry("bottom-right", args.paddingX, args.paddingY,
                                  args.width, args.height, args.watermarkWidth,
                                  args.watermarkHeight)
        /\ ret.fn = "text" =>
              /\ ret = textGeometry("bottom-right", args.paddingX, args.paddingY,
                                    args.width, args.height)
              /\ ret.error = "none" => ret.anchor = "end"
        /\ (/\ ~parsePadding(paddingOr20(args.paddingX), args.width).threw
            /\ ~parsePadding(paddingOr20(args.paddingY), args.height).threw)
           => ret.error = "none"

C18_Witness ==
    /\ ret # Idle
    /\ ret.fn = "text"
    /\ args.position = "nowhere"
    /\ args.paddingX = <<"2">>
    /\ args.paddingY = <<"0">>
    /\ args.width = 5
    /\ args.height = 4
    /\ ret.error = "none"
    /\ ret.anchor = "end"
    /\ QEq(ret.x, QInt(3))
    /\ QEq(ret.y, QInt(0 - 6))

\* =======================================================================
\* The native-alpha path: the loop that scales the alpha bytes of the raw
\* RGBA buffer of the overlay.  Positions are 1-based: data[i] of the code
\* is data[i + 1] here.
\* =======================================================================
MaxPixels == 2        \* the raw buffer holds at most MaxPixels pixels

\* colour triples and alpha bytes of the pixels
Colours == {<<10, 20, 30>>, <<255, 0, 128>>}
AlphaBytes == {0, 1, 128, 200, 255}
Pixels == {c \o <<a>> : c \in Colours, a \in AlphaBytes}

RECURSIVE Flatten(_)
Flatten(ps) == IF ps = <<>> THEN <<>> ELSE Head(ps) \o Flatten(Tail(ps))

\* the buffers of ensureAlpha().raw(): four bytes per pixel
Buffers == {Flatten(ps) : ps \in UNION {[1..k -> Pixels] : k \in 0..MaxPixels}}

\* the opacity after parseFloat; these are exact in double precision, and so
\* are their products with a byte
Opacities == {Q(0, 1), Q(1, 1), Q(1, 2), Q(2, 1), Q(0 - 1, 2), Q(3, 2)}

\* a store into a Buffer element converts the number modulo 2^8
ToUint8(n) == n % 256

\* the channels metadata() reports for the resized overlay (a PNG): 3 for an
\* overlay without alpha, 4 for one with alpha
OverlayChannels == {3, 4}

\* ensureAlpha() on an overlay without alpha adds a fully opaque one
Opaque(data) == \A k \in 1..Len(data) : k % 4 = 0 => data[k] = 255

NoRaw == [width |-> 0, height |-> 0, channels |-> 0]

AlphaInit ==
    /\ CallIdle
    /\ call = Idle
    /\ run = Idle
    /\ args \in [fn : {"alpha"}, data : Buffers, opacity : Opacities,
                 channels : OverlayChannels]
    /\ args.channels = 3 => Opaque(args.data)
    /\ ret = Idle

\* for (let i = 3; ...
AlphaStartAtBlue ==
    /\ args.fn = "alpha"
    /\ ret = Idle
    /\ ret' = [data |-> args.data, i |-> 3, done |-> FALSE, raw |-> NoRaw]
    /\ UNCHANGED <<callVars, call, run, args>>

AlphaStart ==
    /\ args.fn = "alpha"
    /\ ret = Idle
    /\ ret' = [data |-> args.data, i |-> 4, done |-> FALSE, raw |-> NoRaw]
    /\ UNCHANGED <<callVars, call, run, args>>

\* i < data.length: data[i] = Math.round(data[i] * opacity); i += 4
AlphaStep ==
    /\ ret # Idle
    /\ ~ret.done
    /\ ret.i <= Len(ret.data)
    /\ ret' = [ret EXCEPT
                 !.data[ret.i] =
                     ToUint8(jsRound(Q(ret.data[ret.i] * args.opacity.num,
                                       args.opacity.den), FALSE)),
                 !.i = @ + 4]
    /\ UNCHANGED <<callVars, call, run, args>>

\* the loop ends; the buffer is wrapped again as a raw image of the width,
\* height (one row of pixels here) and channels that metadata() reported
AlphaExit ==
    /\ ret # Idle
    /\ ~ret.done
    /\ ret.i > Len(ret.data)
    /\ ret' = [ret EXCEPT !.done = TRUE,
                          !.raw = [width |-> Len(args.data) \div 4,
                                   height |-> 1,
                                   channels |-> args.channels]]
    /\ UNCHANGED <<callVars, call, run, args>>

AlphaNext ==
    \/ AlphaStart
    \/ AlphaStep
    \/ AlphaExit

SpecAlpha == AlphaInit /\ [][AlphaNext]_vars

\* -------------------------------------------- claims on the alpha channel
AlphaPositions == {k \in 1..Len(args.data) : k % 4 = 0}
ColourPositions == {k \in 1..Len(args.data) : k % 4 # 0}

\* C19: on the native-alpha path, for every raw RGBA buffer, opacity 1.0
\* leaves every alpha byte equal to its source value, opacity 0.0 sets every
\* alpha byte to 0, and the colour bytes (offset not 3 modulo 4) are never
\* changed.
C19_AlphaIdentityAndZero ==
    ret # Idle =>
        /\ \A k \in ColourPositions : ret.data[k] = args.data[k]
        /\ (ret.done /\ QEq(args.opacity, QInt(1))) =>
               \A k \in AlphaPositions : ret.data[k] = args.data[k]
        /\ (ret.done /\ QEq(args.opacity, QInt(0))) =>
               \A k \in AlphaPositions : ret.data[k] = 0

C19_Witness ==
    /\ ret # Idle
    /\ ret.done
    /\ args.opacity = Q(0, 1)
    /\ args.data = <<10, 20, 30, 200, 255, 0, 128, 255>>
    /\ ret.data = <<10, 20, 30, 0, 255, 0, 128, 0>>

\* round(alpha * opacity) kept within 0..255
Clamped(alpha, opacity) ==
    Max(0, Min(255, jsRound(Q(alpha * opacity.num, opacity.den), FALSE)))

\* C20: for an opacity outside [0, 1] the call is not rejected and every
\* alpha byte of the native-alpha overlay becomes round(alpha * opacity)
\* clamped to 0..255 (0 when negative, 255 when above 255), never wrapped.
C20_AlphaClamped ==
    (ret # Idle /\ ret.done /\ ~InRange(args.opacity, 0, 1)) =>
        \A k \in AlphaPositions : ret.data[k] = Clamped(args.data[k], args.opacity)

\* ------------------------------------------ claims on the size option
\* the size the caller supplied is not a number, is <= 0 or is > 100
SuppliedSizeInvalid(size) ==
    /\ size.kind # "undefined"
    /\ (size.nan \/ size.val <= 0 \/ size.val > 100)

\* C21: in the image path a size that is not a number, is <= 0 or is > 100
\* makes the file run fail with InvalidSize before the overlay is resized or
\* anything is composited, whether it is given as a number or as a string;
\* every value in (0, 100] is accepted.
C21_InvalidSizeRejected ==
    "SizeCheck" \in Range(run.trace) =>
        IF SuppliedSizeInvalid(call.options.size)
        THEN /\ run.step = "Failed"
             /\ run.error = "InvalidSize"
             /\ run.trace[Len(run.trace)] = "SizeCheck"
        ELSE run.error # "InvalidSize"

\* =======================================================================
\* Resolution of the opacity and size options at the head of the text
\* branch and of the image branch of processSingleFile.
\* =======================================================================
\* An opacity option is a number, a string or absent; nan marks NaN, val is
\* the number (of a string: what parseFloat reads).
OpacityString(v) == [kind |-> "string", nan |-> FALSE, val |-> v]
OpacityNumber(v) == [kind |-> "number", nan |-> FALSE, val |-> v]
OpacityAbsent == [kind |-> "undefined", nan |-> FALSE, val |-> Q(0, 1)]
OpacityNotANumber == [kind |-> "string", nan |-> TRUE, val |-> Q(0, 1)]

OpacityCases ==
    {OpacityAbsent, OpacityNotANumber, OpacityString(Q(0, 1)),
     OpacityString(Q(1, 2)), OpacityNumber(Q(0, 1)), OpacityNumber(Q(1, 2)),
     OpacityNumber(Q(1, 1))}

SizeCases ==
    {SizeAbsent, SizeNotANumber, SizeString(25), SizeString(0),
     SizeString(0 - 5), SizeString(150), SizeNumber(0), SizeNumber(25)}

\* canvas sides: the small ones and one of a photograph
CanvasSides == (1..MaxCanvas) \cup {800}

\* typeof options.opacity === 'string' ? parseFloat(options.opacity)
\*                                      : options.opacity || 1.0
opacityOf(opacity) ==
    IF opacity.kind = "string" THEN [nan |-> opacity.nan, val |-> opacity.val]
    ELSE IF opacity.kind = "number" /\ ~opacity.nan /\ opacity.val.num # 0
         THEN [nan |-> FALSE, val |-> opacity.val]
    ELSE [nan |-> FALSE, val |-> Q(1, 1)]

\* Math.max(20, Math.round(Math.min(width, height) * (sizePercent / 100)));
\* Math.round and Math.max of NaN are NaN
textFontSize(size, width, height, tieDown) ==
    LET sizePercent == sizePercentOf(size)
    IN IF sizePercent.nan THEN [nan |-> TRUE, val |-> 0]
       ELSE [nan |-> FALSE,
             val |-> Max(20, jsRound(Q(Min(width, height) * sizePercent.val, 100),
                                     tieDown))]

OptionsInit ==
    /\ CallIdle
    /\ call = Idle
    /\ run = Idle
    /\ args \in [fn : {"options"}, opacity : OpacityCases, size : SizeCases,
                 width : CanvasSides, height : CanvasSides, tieDown : BOOLEAN]
    /\ ret = Idle

\* the text branch: opacity, sizePercent and fontSize
CallTextOptions ==
    /\ args.fn = "options"
    /\ ret = Idle
    /\ ret' = [fn |-> "text",
               opacity |-> opacityOf(args.opacity),
               sizePercent |-> sizePercentOf(args.size),
               fontSize |-> textFontSize(args.size, args.width, args.height,
                                         args.tieDown)]
    /\ UNCHANGED <<callVars, call, run, args>>

\* the image branch: opacity and sizePercent
CallImageOptions ==
    /\ args.fn = "options"
    /\ ret = Idle
    /\ ret' = [fn |-> "image",
               opacity |-> opacityOf(args.opacity),
               sizePercent |-> sizePercentOf(args.size),
               fontSize |-> [nan |-> FALSE, val |-> 0]]
    /\ UNCHANGED <<callVars, call, run, args>>

OptionsNext ==
    \/ CallTextOptions
    \/ CallImageOptions

SpecOptions == OptionsInit /\ [][OptionsNext]_vars

\* max(20, round(min(canvas_w, canvas_h) * size / 100)), a half rounded
\* either way
ClaimedFontSizes(size, width, height) ==
    {Max(20, jsRound(Q(Min(width, height) * size, 100), t)) : t \in BOOLEAN}

\* C22: in the text path the font size used is
\* max(20, round(min(canvas_w, canvas_h) * size_percent / 100)), hence a
\* number >= 20, for every supplied size: 0, negative, above 100 and
\* non-numeric input included.
C22_FontSizeAtLeast20 ==
    (ret # Idle /\ ret.fn = "text" /\ args.size.kind # "undefined") =>
        /\ ~ret.fontSize.nan
        /\ ret.fontSize.val >= 20
        /\ ~args.size.nan =>
              ret.fontSize.val \in ClaimedFontSizes(args.size.val, args.width,
                                                    args.height)

\* C29: the opacity applied equals the opacity the caller supplied, as a
\* number or as a numeric string (0 and "0" both apply opacity 0), and the
\* default 1.0 is used only when the option is omitted.
C29_OpacityAsSupplied ==
    ret # Idle =>
        IF args.opacity.kind = "undefined"
        THEN ~ret.opacity.nan /\ QEq(ret.opacity.val, Q(1, 1))
        ELSE ~args.opacity.nan =>
                 ~ret.opacity.nan /\ QEq(ret.opacity.val, args.opacity.val)

\* =======================================================================
\* convert: the overwrite check of a single-file conversion and of the
\* sequential loop of a directory conversion.  Files are numbered 1..n;
\* exists holds those whose output path is taken before the call, bad those
\* that convertSingleImage rejects.
\* =======================================================================
MaxConvert == 3       \* a converted directory holds at most MaxConvert files

ConvertCalls ==
    {[kind |-> k, overwrite |-> ow, n |-> n, exists |-> ex, bad |-> b] :
        k \in {"dir"}, ow \in BOOLEAN, n \in 1..MaxConvert,
        ex \in SUBSET (1..MaxConvert), b \in SUBSET (1..MaxConvert)}
    \cup
    {[kind |-> k, overwrite |-> ow, n |-> 1, exists |-> ex, bad |-> b] :
        k \in {"file"}, ow \in BOOLEAN, ex \in SUBSET {1}, b \in SUBSET {1}}

ConvertInit ==
    /\ CallIdle
    /\ call \in {c \in ConvertCalls : c.exists \subseteq 1..c.n /\ c.bad \subseteq 1..c.n}
    /\ run = [pc |-> IF call.kind = "file" THEN "check" ELSE "loop",
              k |-> 1, successCount |-> 0, errorCount |-> 0,
              out |-> [f \in 1..call.n |-> IF f \in call.exists THEN "old" ELSE "absent"],
              skipped |-> {}, outcome |-> "running", error |-> "none"]
    /\ args = Idle
    /\ ret = Idle

\* processSingleFile: if (!options.overwrite) fs.access(outputPath) ... throw
ConvertCheckOutput ==
    /\ run.pc = "check"
    /\ run' = IF ~call.overwrite /\ run.out[1] # "absent"
              THEN [run EXCEPT !.pc = "done", !.outcome = "threw",
                               !.error = "OutputExists"]
              ELSE [run EXCEPT !.pc = "convert"]
    /\ UNCHANGED <<callVars, call, args, ret>>

\* processSingleFile: mkdir and convertSingleImage
ConvertSingle ==
    /\ run.pc = "convert"
    /\ run' = IF 1 \in call.bad
              THEN [run EXCEPT !.pc = "done", !.outcome = "threw",
                               !.error = "ConvertFailed"]
              ELSE [run EXCEPT !.pc = "done", !.outcome = "returned",
                               !.out[1] = "new"]
    /\ UNCHANGED <<callVars, call, args, ret>>

\* processDirectory, loop body: the overwrite check of the next file
DirCheckOutputNoSkip ==
    /\ run.pc = "loop"
    /\ run.k <= call.n
    /\ run' = [run EXCEPT !.pc = "dirconvert"]
    /\ UNCHANGED <<callVars, call, args, ret>>

DirCheckOutput ==
    /\ run.pc = "loop"
    /\ run.k <= call.n
    /\ run' = IF ~call.overwrite /\ run.out[run.k] # "absent"
              THEN [run EXCEPT !.skipped = @ \cup {run.k}, !.k = @ + 1]
              ELSE [run EXCEPT !.pc = "dirconvert"]
    /\ UNCHANGED <<callVars, call, args, ret>>

\* processDirectory, loop body: mkdir, convertSingleImage, successCount++ or
\* the catch block
DirConvert ==
    /\ run.pc = "dirconvert"
    /\ run' = IF run.k \in call.bad
              THEN [run EXCEPT !.errorCount = @ + 1, !.k = @ + 1, !.pc = "loop"]
              ELSE [run EXCEPT !.successCount = @ + 1, !.out[run.k] = "new",
                               !.k = @ + 1, !.pc = "loop"]
    /\ UNCHANGED <<callVars, call, args, ret>>

\* processDirectory: the loop is over
DirReturn ==
    /\ run.pc = "loop"
    /\ run.k > call.n
    /\ run' = [run EXCEPT !.pc = "done", !.outcome = "returned"]
    /\ UNCHANGED <<callVars, call, args, ret>>

ConvertNext ==
    \/ ConvertCheckOutput
    \/ ConvertSingle
    \/ DirCheckOutput
    \/ DirConvert
    \/ DirReturn

SpecConvert == ConvertInit /\ [][ConvertNext]_vars

\* ---------------------------------------------------- claims on convert
\* the files whose output existed while the overwrite flag is not set
Blocked == IF call.overwrite THEN {} ELSE call.exists

\* the existing outputs are left as they were
BlockedUnchanged == \A f \in Blocked : run.out[f] = "old"

\* C23 as stated: a convert whose output file exists while overwrite is not
\* set fails with OutputExists and leaves the file unchanged, for a single
\* file, and for each file of a directory conversion, where that file is
\* counted as an error.
C23_ExistingOutputIsError ==
    /\ BlockedUnchanged
    /\ (run.pc = "done" /\ call.kind = "file" /\ Blocked # {}) =>
           run.outcome = "threw" /\ run.error = "OutputExists"
    /\ (run.pc = "done" /\ call.kind = "dir") =>
           run.errorCount = Cardinality(Blocked \cup call.bad)

\* C23 amended: a single-file convert whose output exists while overwrite is
\* not set fails with OutputExists and leaves the file unchanged; in a
\* directory conversion such a file is skipped: it is left unchanged and is
\* counted neither as converted nor as an error, and the call goes on.
C23_ExistingOutputKept ==
    /\ BlockedUnchanged
    /\ (run.pc = "done" /\ call.kind = "file" /\ Blocked # {}) =>
           run.outcome = "threw" /\ run.error = "OutputExists"
    /\ (run.pc = "done" /\ call.kind = "dir") =>
           /\ run.outcome = "returned"
           /\ run.skipped = Blocked
           /\ run.errorCount = Cardinality(call.bad \ Blocked)
           /\ run.successCount = Cardinality((1..call.n) \ (Blocked \cup call.bad))

C23_Witness ==
    /\ run.pc = "done"
    /\ call.kind = "dir"
    /\ call.n = 3
    /\ ~call.overwrite
    /\ call.exists = {2}
    /\ call.bad = {3}
    /\ run.out = <<"new", "old", "absent">>
    /\ run.successCount = 1
    /\ run.errorCount = 1

\* =======================================================================
\* cli.ts: the ways the process exits.  A command action runs inside
\* program.parseAsync(); the SIGINT and SIGTERM handlers run whenever the
\* signal arrives; each await is a step.
\* =======================================================================
Commands == {"strip", "info", "resize", "crop", "convert", "watermark"}
Signals == {"SIGINT", "SIGTERM"}

CliInit ==
    /\ CallIdle
    /\ call \in [command : Commands, fails : BOOLEAN]
    /\ run = [cmd |-> "running",      \* the command action
              main |-> "parse",       \* the parseAsync().then chain
              handler |-> [sg \in Signals |-> "idle"],
              endCalled |-> FALSE,    \* exiftool.end() was called
              endDone |-> FALSE,      \* a call of exiftool.end() completed
              exited |-> FALSE, exitCode |-> 0, path |-> "none"]
    /\ args = Idle
    /\ ret = Idle

\* the command resolves; parseAsync resolves and the then-callback calls
\* cleanup(), which calls exiftool.end()
CommandCompletes ==
    /\ ~run.exited
    /\ run.cmd = "running"
    /\ ~call.fails
    /\ run' = [run EXCEPT !.cmd = "completed", !.main = "cleanup",
                          !.endCalled = TRUE]
    /\ UNCHANGED <<callVars, call, args, ret>>

\* the command rejects: the catch block of its action calls process.exit(1)
CommandThrows ==
    /\ ~run.exited
    /\ run.cmd = "running"
    /\ call.fails
    /\ run' = [run EXCEPT !.cmd = "threw", !.exited = TRUE, !.exitCode = 1,
                          !.path = "error"]
    /\ UNCHANGED <<callVars, call, args, ret>>

\* the cleanup of the then-callback completes; nothing is left to run and
\* the process exits
MainCleanupDone ==
    /\ ~run.exited
    /\ run.main = "cleanup"
    /\ run' = [run EXCEPT !.main = "finished", !.endDone = TRUE,
                          !.exited = TRUE, !.exitCode = 0, !.path = "normal"]
    /\ UNCHANGED <<callVars, call, args, ret>>

\* a signal arrives: its handler calls cleanup()
HandlerStart(sg) ==
    /\ ~run.exited
    /\ run.handler[sg] = "idle"
    /\ run' = [run EXCEPT !.handler[sg] = "cleanup", !.endCalled = TRUE]
    /\ UNCHANGED <<callVars, call, args, ret>>

\* the handler's cleanup completes and it calls process.exit(0)
HandlerExit(sg) ==
    /\ ~run.exited
    /\ run.handler[sg] = "cleanup"
    /\ run' = [run EXCEPT !.handler[sg] = "exited", !.endDone = TRUE,
                          !.exited = TRUE, !.exitCode = 0, !.path = sg]
    /\ UNCHANGED <<callVars, call, args, ret>>

CliNext ==
    \/ CommandCompletes
    \/ CommandThrows
    \/ MainCleanupDone
    \/ \E sg \in Signals : HandlerStart(sg)
    \/ \E sg \in Signals : HandlerExit(sg)

SpecCli == CliInit /\ [][CliNext]_vars

\* C24: on every path by which the process exits (normal completion, a
\* command error that exits with code 1, SIGINT, SIGTERM) the metadata
\* tool's end() has been called and has completed before the exit.
C24_EndBeforeExit == run.exited => (run.endCalled /\ run.endDone)

\* =======================================================================
\* commands/crop.ts: the crop of a single file.
\* =======================================================================
MaxImage == 4         \* image sides range over 0..MaxImage, 0 being unreadable
MaxRatio == 3         \* the parts of an aspect ratio range over 0..MaxRatio

VALID_POSITIONS == {"center", "top", "bottom", "left", "right", "top-left", "top-right", "bottom-left", "bottom-right"}

\* the offsets of a position, in halves (0, 0.5 and 1 are 0, 1 and 2)
POSITION_OFFSETS ==
    [p \in VALID_POSITIONS |->
        [x |-> CASE p \in {"left", "top-left", "bottom-left"} -> 0
                 [] p \in {"right", "top-right", "bottom-right"} -> 2
                 [] OTHER -> 1,
         y |-> CASE p \in {"top", "top-left", "top-right"} -> 0
                 [] p \in {"bottom", "bottom-left", "bottom-right"} -> 2
                 [] OTHER -> 1]]

NoDimensions == [set |-> FALSE, error |-> "", targetWidth |-> 0, targetHeight |-> 0]
TargetError(e) == [set |-> FALSE, error |-> e, targetWidth |-> 0, targetHeight |-> 0]
Target(w, h) == [set |-> TRUE, error |-> "", targetWidth |-> w, targetHeight |-> h]

\* the options of a crop: mode "aspect" carries WIDTH:HEIGHT in a and b, mode
\* "dimensions" carries WIDTHxHEIGHT, a part that is 0 or not a number being
\* 0 here; mode "none" carries neither
CropModes ==
    [mode : {"aspect"}, a : 0..MaxRatio, b : 0..MaxRatio]
        \cup [mode : {"dimensions"}, a : 0..(MaxImage + 1), b : 0..(MaxImage + 1)]
        \cup [mode : {"none"}, a : {0}, b : {0}]

\* the positions a call may carry: the nine valid ones, none, an unknown one
CropPositions == VALID_POSITIONS \cup {"", "middle"}

calculateTargetDimensions(cropOptions, imageWidth, imageHeight, tieDown) ==
    IF cropOptions.mode = "aspect" THEN
        IF cropOptions.a = 0 \/ cropOptions.b = 0 THEN TargetError("InvalidAspect")
        ELSE IF imageWidth * cropOptions.b > cropOptions.a * imageHeight
        THEN Target(jsRound(Q(imageHeight * cropOptions.a, cropOptions.b), tieDown), imageHeight)
        ELSE Target(imageWidth, jsRound(Q(imageWidth * cropOptions.b, cropOptions.a), tieDown))
    ELSE IF cropOptions.mode = "dimensions" THEN
        IF cropOptions.a = 0 \/ cropOptions.b = 0 THEN TargetError("InvalidDimensions")
        ELSE Target(cropOptions.a, cropOptions.b)
    ELSE TargetError("NoCropMode")

NoArea == [set |-> FALSE, cropX |-> 0, cropY |-> 0, cropWidth |-> 0, cropHeight |-> 0]

calculateCropAreaFromOrigin(imageWidth, imageHeight, targetWidth, targetHeight, position) ==
    LET cropWidth == Min(targetWidth, imageWidth)
        cropHeight == Min(targetHeight, imageHeight)
    IN IF position \notin VALID_POSITIONS THEN NoArea
       ELSE [set |-> TRUE,
             cropX |-> jsRound(Q(imageWidth * POSITION_OFFSETS[position].x, 2), FALSE),
             cropY |-> jsRound(Q(imageHeight * POSITION_OFFSETS[position].y, 2), FALSE),
             cropWidth |-> cropWidth,
             cropHeight |-> cropHeight]

\* the products by 0, 0.5 and 1 are exact, so a half rounds up
calculateCropArea(imageWidth, imageHeight, targetWidth, targetHeight, position) ==
    LET cropWidth == Min(targetWidth, imageWidth)
        cropHeight == Min(targetHeight, imageHeight)
    IN IF position \notin VALID_POSITIONS THEN NoArea
       ELSE [set |-> TRUE,
             cropX |-> jsRound(Q((imageWidth - cropWidth) * POSITION_OFFSETS[position].x, 2), FALSE),
             cropY |-> jsRound(Q((imageHeight - cropHeight) * POSITION_OFFSETS[position].y, 2), FALSE),
             cropWidth |-> cropWidth,
             cropHeight |-> cropHeight]

\* a call of processSingleFile: the image read by metadata(), the options,
\* and which way a half computed in double precision falls
CropInit ==
    /\ CallIdle
    /\ call \in [imageWidth : 0..MaxImage, imageHeight : 0..MaxImage,
                 options : CropModes, position : CropPositions,
                 tieDown : BOOLEAN]
    /\ run = [step |-> "Mkdir", error |-> "", dirMade |-> FALSE,
              target |-> NoDimensions, area |-> NoArea, out |-> "none",
              trace |-> <<>>]
    /\ args = Idle
    /\ ret = Idle

CropFail(name, e) ==
    run' = [run EXCEPT !.step = "Failed", !.error = e,
                       !.trace = Append(@, name)]

\* fs.mkdir(outputDir, {recursive: true})
CropMkdir ==
    /\ call # Idle /\ run # Idle
    /\ run.step = "Mkdir"
    /\ run' = [run EXCEPT !.step = "Metadata", !.dirMade = TRUE,
                          !.trace = Append(@, "Mkdir")]
    /\ UNCHANGED <<callVars, call, args, ret>>

\* sharp(inputPath).metadata() and the test of the two dimensions
CropMetadata ==
    /\ run.step = "Metadata"
    /\ IF call.imageWidth = 0 \/ call.imageHeight = 0
       THEN CropFail("Metadata", "UnreadableDimensions")
       ELSE run' = [run EXCEPT !.step = "Target",
                               !.trace = Append(@, "Metadata")]
    /\ UNCHANGED <<callVars, call, args, ret>>

CropTarget ==
    /\ run.step = "Target"
    /\ LET t == calculateTargetDimensions(call.options, call.imageWidth,
                                          call.imageHeight, call.tieDown)
       IN IF t.set
          THEN run' = [run EXCEPT !.step = "Check", !.target = t,
                                  !.trace = Append(@, "Target")]
          ELSE CropFail("Target", t.error)
    /\ UNCHANGED <<callVars, call, args, ret>>

\* the crop may not be larger than the image
CropCheck ==
    /\ run.step = "Check"
    /\ IF run.target.targetWidth > call.imageWidth
            \/ run.target.targetHeight > call.imageHeight
       THEN CropFail("Check", "DimensionsExceedSource")
       ELSE run' = [run EXCEPT !.step = "Area",
                               !.trace = Append(@, "Check")]
    /\ UNCHANGED <<callVars, call, args, ret>>

CropArea ==
    /\ run.step = "Area"
    /\ LET position == IF call.position = "" THEN "center" ELSE call.position
           a == calculateCropArea(call.imageWidth, call.imageHeight,
                                  run.target.targetWidth,
                                  run.target.targetHeight, position)
       IN IF a.set
          THEN run' = [run EXCEPT !.step = "Extract", !.area = a,
                                  !.trace = Append(@, "Area")]
          ELSE CropFail("Area", "InvalidPosition")
    /\ UNCHANGED <<callVars, call, args, ret>>

\* sharp(inputPath).extract({left, top, width, height}).toFile(outputPath):
\* extract takes a width and a height of at least 1 and an area inside the
\* image, and rejects anything else
CropExtract ==
    /\ run.step = "Extract"
    /\ IF /\ run.area.cropWidth >= 1 /\ run.area.cropHeight >= 1
          /\ run.area.cropX >= 0 /\ run.area.cropY >= 0
          /\ run.area.cropX + run.area.cropWidth <= call.imageWidth
          /\ run.area.cropY + run.area.cropHeight <= call.imageHeight
       THEN run' = [run EXCEPT !.step = "Done", !.out = "cropped",
                               !.trace = Append(@, "Extract")]
       ELSE CropFail("Extract", "ExtractFailed")
    /\ UNCHANGED <<callVars, call, args, ret>>

CropNext ==
    \/ CropMkdir
    \/ CropMetadata
    \/ CropTarget
    \/ CropCheck
    \/ CropArea
    \/ CropExtract

SpecCrop == CropInit /\ [][CropNext]_vars

\* C26: a single-file crop whose target dimensions are computed fails with
\* DimensionsExceedSource exactly when the target width exceeds the image
\* width or the target height exceeds the image height, and then writes no
\* output; otherwise, for each of the nine positions, the rectangle handed
\* to extract has exactly the target dimensions and lies inside the image.
C26_CropInsideImage ==
    /\ "Check" \in Range(run.trace) =>
          ((run.error = "DimensionsExceedSource") <=>
              (run.target.targetWidth > call.imageWidth
                  \/ run.target.targetHeight > call.imageHeight))
    /\ run.error = "DimensionsExceedSource" =>
          ("Check" \in Range(run.trace) /\ run.out = "none")
    /\ ("Check" \in Range(run.trace) /\ run.error # "DimensionsExceedSource"
            /\ run.step # "Area" /\ call.position \in VALID_POSITIONS) =>
          /\ run.area.set
          /\ run.area.cropWidth = run.target.targetWidth
          /\ run.area.cropHeight = run.target.targetHeight
          /\ 0 <= run.area.cropX
          /\ run.area.cropX + run.area.cropWidth <= call.imageWidth
          /\ 0 <= run.area.cropY
          /\ run.area.cropY + run.area.cropHeight <= call.imageHeight

\* a crop centred over an odd horizontal margin and a vertical margin has
\* been written
C26_Witness ==
    /\ run.step = "Done"
    /\ run.out = "cropped"
    /\ call.position = "center"
    /\ (call.imageWidth - run.area.cropWidth) % 2 = 1
    /\ run.area.cropY > 0

\* =======================================================================
\* Termination of the directory loop of watermark and resize.  Every await
\* of the loop is on an external call (fs.mkdir, the raster pipeline,
\* Promise.all); under the proviso that every such call settles, a step
\* that is enabled is eventually taken.
\* =======================================================================
\* directory calls of watermark and resize; the options that only select
\* how a single file fails (padding, size) are left at their defaults
DirInit ==
    /\ Init
    /\ inputKind = "dir"
    /\ op \in {"watermark", "resize"}
    /\ op = "watermark" =>
          (options.size = SizeAbsent /\ options.paddingX = PadAbsent
              /\ options.paddingY = PadAbsent)

DirNext ==
    \/ Validate
    \/ CheckInput
    \/ Scan
    \/ StartBatch
    \/ \E p \in 1..MaxFiles : TaskMkdir(p)
    \/ \E p \in 1..MaxFiles : TaskRun(p)
    \/ AwaitAll
    \/ ReturnResult

SpecDirLive == DirInit /\ [][DirNext]_vars /\ WF_vars(DirNext)

\* the tasks the current iteration of the loop has started
BatchInFlight == {p \in DOMAIN started : p > i /\ started[p] > 0}

\* the iterations of the loop completed so far: i grows once per iteration
BatchesRun == i \div (IF op = "watermark" THEN 3 ELSE 5)

CeilDiv(n, d) == (n + d - 1) \div d

BatchCounts ==
    LET bs == IF op = "watermark" THEN 3 ELSE 5
        n == Len(files)
    IN /\ i % bs = 0
       /\ \A p \in DOMAIN started : started[p] <= 1
       /\ pc = "await" =>
             /\ Cardinality(BatchInFlight) >= 1
             /\ i + bs < n => Cardinality(BatchInFlight) = bs
             /\ i + bs >= n => Cardinality(BatchInFlight) = n - i
       /\ pc = "loop" => BatchInFlight = {}
       /\ outcome = "returned" => BatchesRun = CeilDiv(n, bs)

resizedLayer(ow, oh, w, h, tieW, tieH) ==
    LET scale == QMin(Q(w, ow), Q(h, oh))
    IN IF QLeq(Q(1, 1), scale)
       THEN [width |-> ow, height |-> oh]
       ELSE [width |-> Max(1, jsRound(Q(ow * scale.num, scale.den), tieW)),
             height |-> Max(1, jsRound(Q(oh * scale.num, scale.den), tieH))]

\* C27: the overlay width and height used to compute the placement offset
\* equal the width and height of the layer that is composited, also when
\* the computed size exceeds the overlay's source resolution.
C27_OffsetSizeIsLayerSize ==
    (ret # Idle /\ args.fn = "calculateWatermarkSize"
        /\ ret.width >= 1 /\ ret.height >= 1) =>
        \A tW \in BOOLEAN : \A tH \in BOOLEAN :
            resizedLayer(args.watermarkWidth, args.watermarkHeight,
                         ret.width, ret.height, tW, tH)
                = [width |-> ret.width, height |-> ret.height]

\* C28: on the native-alpha path the channel count declared when the raw
\* buffer is wrapped again equals the samples per pixel of that buffer (4),
\* for overlays with 3 channels as well as with 4, so that the buffer
\* length equals width * height * declared channels.
C28_DeclaredChannelsMatchBuffer ==
    (ret # Idle /\ args.fn = "alpha" /\ ret.done) =>
        /\ ret.raw.channels = 4
        /\ Len(ret.data) = ret.raw.width * ret.raw.height * ret.raw.channels

\* C30: during and after a strip call, for a single file and for a
\* directory, every file the call has written at an output path has its
\* metadata removed; when the metadata tool's write fails, the file is
\* counted as failed (or the call fails) and no copy that still carries the
\* metadata is left at the output path.
C30_NoUnstrippedOutput ==
    op = "strip" =>
        /\ \A f \in fsFiles : f.content = "stripped"
        /\ \A p \in DOMAIN stage :
              (Settled(stage[p]) /\ files[p] \in faulty) => stage[p] = "failed"

====
